---- MODULE Spec2Model ----
(***************************************************************************)
(* Delilah Prime: the de-identification engine (src/deidentifier),         *)
(* and the chunker and the section extractor (src/processor).              *)
(*                                                                         *)
(* Text is a sequence of tokens.  A token is a maximal run of characters   *)
(* of one class (a word, a run of blanks reduced to one blank, one         *)
(* punctuation character, a date value), so that the regular expressions   *)
(* of deidentifier.py, which are built from character classes, keywords    *)
(* and look-arounds, act on whole tokens.  A placeholder "[NAME_1a2b3c4d]" *)
(* is the five tokens "[", "NAME", "_", id, "]".                           *)
(***************************************************************************)
EXTENDS Integers, Sequences, FiniteSets, TLC

\* ------------------------------------------------------------------ bounds
\* phrases per input text of deidentify_text
MaxPhrases == 2
\* distinct values uuid4()[:8] may take
NumIds == 2
\* deidentify_text calls per session
MaxCalls == 1
\* characters of the text given to split_into_chunks
MaxTextLen == 6
\* the values of max_chunk_size, from 1
MaxChunkSize == 3
\* the values of chunk_overlap, from 0
MaxOverlap == 2
\* segments of the content given to _extract_section
MaxSegments == 3
\* organize_content: documents given to one call
MaxDocs == 2
\* pairs in the reference table of a Deidentifier that is saved and loaded
MaxPairs == 2
\* Deidentifier objects constructed on one directory, and the clock
MaxSessions == 3
MaxClock == 5
\* threads that call generate_narrative for one section
NumThreads == 2

\* ------------------------------------------------------------ token classes
\* str.lower() on one token
Lower(t) ==
    CASE t = "Mr" -> "mr"
      [] t = "Al" -> "al"
      [] t = "Bo" -> "bo"
      [] t = "Ottawa" -> "ottawa"
      [] t = "DOB" -> "dob"
      [] t = "NAME" -> "name"
      [] t = "DATE" -> "date"
      [] t = "DIAGNOSIS" -> "diagnosis"
      [] t = "FINDINGS" -> "findings"
      [] t = "DX" -> "dx"
      [] OTHER -> t

LowerSeq(s) == [i \in 1..Len(s) |-> Lower(s[i])]

\* \s
IsSpace(t) == t \in {" ", "\n"}

\* a run matched by [A-Z][a-z]+ under re.IGNORECASE: two letters or more
IsLetters(t) ==
    Lower(t) \in {"mr", "al", "bo", "ottawa", "dob", "name", "date", "deadbeef",
                  "diagnosis"}

\* \d{1,2}[-/\.]\d{1,2}[-/\.]\d{2,4}
IsDate(t) == t \in {"1/2/03", "4/5/06"}

\* the token's first (last) character is in \w = [A-Za-z0-9_]
FirstIsWord(t) == t \notin {" ", ".", ":", "[", "]", "\n"}
LastIsWord(t) == t \notin {" ", ".", ":", "[", "]", "\n"}

\* (?<!\w) at position i, (?!\w) at position j
NotWordBefore(s, i) == i = 1 \/ ~LastIsWord(s[i - 1])
NotWordAt(s, j) == j > Len(s) \/ ~FirstIsWord(s[j])

\* s[:i] and s[i:] of Python, for the position i of a token counted from 1:
\* the tokens before i, and those from i on; a position past the end is
\* clipped as Python clips it
SliceTo(s, i) == SubSeq(s, 1, IF i - 1 > Len(s) THEN Len(s) ELSE i - 1)
SliceFrom(s, i) == SubSeq(s, IF i > Len(s) THEN Len(s) + 1 ELSE i, Len(s))

RECURSIVE SkipSpaces(_, _)
\* \s* from position j: the position after the blanks
SkipSpaces(s, j) ==
    IF j <= Len(s) /\ IsSpace(s[j]) THEN SkipSpaces(s, j + 1) ELSE j

\* --------------------------------------------------------------- patterns
\* self.patterns: the categories in declaration order, each with its
\* patterns in declaration order.  Carried here: the titled name (line 46),
\* the name before a date of birth (line 56) and the date of birth (line
\* 61).  The other patterns have the shape keyword ":" value of line 61 and
\* need keywords no text over the tokens above contains.
phi_types == <<"NAME", "DATE">>

patterns(phi_type) ==
    IF phi_type = "NAME" THEN <<"titled_name", "name_before_dob">>
    ELSE <<"dob_date">>

RECURSIVE NameTail(_, _)
\* (?:\s[A-Z][a-z]+)*(?!\w), greedy with backtracking, from position j:
\* the end of the match, 0 when there is none
NameTail(s, j) ==
    LET more == IF j + 1 <= Len(s) /\ IsSpace(s[j]) /\ IsLetters(s[j + 1])
                THEN NameTail(s, j + 2)
                ELSE 0
    IN  IF more > 0 THEN more
        ELSE IF NotWordAt(s, j) THEN j ELSE 0

\* (?<!\w)(?:Mr\.|Mrs\.|Ms\.|Dr\.|Prof\.)\s[A-Z][a-z]+(?:\s[A-Z][a-z]+)*(?!\w)
TitledNameEnd(s, i) ==
    IF /\ NotWordBefore(s, i)
       /\ i + 3 <= Len(s)
       /\ Lower(s[i]) \in {"mr", "mrs", "ms", "dr", "prof"}
       /\ s[i + 1] = "."
       /\ IsSpace(s[i + 2])
       /\ IsLetters(s[i + 3])
    THEN NameTail(s, i + 4)
    ELSE 0

\* [A-Z][a-z]+\s+[A-Z][a-z]+\s+(?=date of birth|DOB|born on)
NameBeforeDobEnd(s, i) ==
    IF IsLetters(s[i])
    THEN LET j == SkipSpaces(s, i + 1)
         IN  IF j > i + 1 /\ j <= Len(s) /\ IsLetters(s[j])
             THEN LET k == SkipSpaces(s, j + 1)
                  IN  IF k > j + 1 /\ k <= Len(s) /\ Lower(s[k]) = "dob"
                      THEN k
                      ELSE 0
             ELSE 0
    ELSE 0

\* (?<!\w)(?:DOB|Date\sof\sBirth|Birth\sDate):\s*<date>(?!\w)
DobDateEnd(s, i) ==
    IF /\ NotWordBefore(s, i)
       /\ Lower(s[i]) = "dob"
       /\ i + 1 <= Len(s)
       /\ s[i + 1] = ":"
    THEN LET j == SkipSpaces(s, i + 2)
         IN  IF j <= Len(s) /\ IsDate(s[j]) /\ NotWordAt(s, j + 1)
             THEN j + 1
             ELSE 0
    ELSE 0

\* the end (exclusive) of the pattern's match starting at i, 0 when none
MatchEnd(pattern, s, i) ==
    CASE pattern = "titled_name" -> TitledNameEnd(s, i)
      [] pattern = "name_before_dob" -> NameBeforeDobEnd(s, i)
      [] OTHER -> DobDateEnd(s, i)

RECURSIVE FinditerFrom(_, _, _)
\* re.finditer: the leftmost non-overlapping matches from position i on,
\* each with its span and its matched text (match.group(0))
FinditerFrom(pattern, s, i) ==
    IF i > Len(s) THEN <<>>
    ELSE LET e == MatchEnd(pattern, s, i)
         IN  IF e > i
             THEN <<[start |-> i, end |-> e, group |-> SubSeq(s, i, e - 1)]>>
                  \o FinditerFrom(pattern, s, e)
             ELSE FinditerFrom(pattern, s, i + 1)

\* the mutant: the matches come last first, so that reversed() takes them
\* in ascending order of start offset
finditer_last_first(pattern, s) ==
    LET ms == FinditerFrom(pattern, s, 1)
    IN  [n \in 1..Len(ms) |-> ms[Len(ms) + 1 - n]]

finditer(pattern, s) == FinditerFrom(pattern, s, 1)

\* ------------------------------------------------------ exclusion list
\* self.professional_terms: the terms a text over the tokens can contain
professional_terms == << <<"Ottawa">> >>

\* sub in s (str.__contains__)
Contains(sub, s) ==
    \E i \in 1..(Len(s) - Len(sub) + 1) : SubSeq(s, i, i + Len(sub) - 1) = sub

RECURSIVE Strip(_)
\* str.strip()
Strip(s) ==
    IF s = <<>> THEN s
    ELSE IF IsSpace(s[1]) THEN Strip(Tail(s))
    ELSE IF IsSpace(s[Len(s)]) THEN Strip(SubSeq(s, 1, Len(s) - 1))
    ELSE s

\* the mutant: the matched text is compared as written, not lower-cased
IsProfessionalTerm_case_sensitive(phi_value) ==
    \E n \in 1..Len(professional_terms) :
        Contains(LowerSeq(professional_terms[n]), Strip(phi_value))

_is_professional_term(phi_value) ==
    LET text_lower == Strip(LowerSeq(phi_value))
    IN  \E n \in 1..Len(professional_terms) :
            Contains(LowerSeq(professional_terms[n]), text_lower)

\* ----------------------------------------------------------- placeholders
\* the values str(uuid.uuid4())[:8] is drawn from
IdNames == <<"deadbeef", "0badc0de", "cafe0123", "12345678">>
Ids == {IdNames[n] : n \in 1..NumIds}

\* f"[{phi_type}_{placeholder_id}]"
_generate_placeholder(phi_type, placeholder_id) ==
    <<"[", phi_type, "_", placeholder_id, "]">>

\* -------------------------------------------------------- reference table
\* The dict self.reference_table: the (placeholder, original) pairs in
\* insertion order; assigning to a key it holds replaces the value in place.
HasKey(table, k) == \E n \in 1..Len(table) : table[n].k = k

Lookup(table, k) == table[CHOOSE n \in 1..Len(table) : table[n].k = k].v

SetItem(table, k, v) ==
    IF HasKey(table, k)
    THEN [n \in 1..Len(table) |->
            IF table[n].k = k THEN [k |-> k, v |-> v] ELSE table[n]]
    ELSE Append(table, [k |-> k, v |-> v])

RECURSIVE Replace_first(_, _, _)
\* the mutant: str.replace(old, new, 1), the first occurrence only
Replace_first(s, old, new) ==
    IF Len(s) < Len(old) \/ old = <<>> THEN s
    ELSE IF SubSeq(s, 1, Len(old)) = old
         THEN new \o SubSeq(s, Len(old) + 1, Len(s))
         ELSE <<s[1]>> \o Replace_first(Tail(s), old, new)

RECURSIVE Replace(_, _, _)
\* str.replace(old, new): every non-overlapping occurrence, left to right
Replace(s, old, new) ==
    IF Len(s) < Len(old) \/ old = <<>> THEN s
    ELSE IF SubSeq(s, 1, Len(old)) = old
         THEN new \o Replace(SubSeq(s, Len(old) + 1, Len(s)), old, new)
         ELSE <<s[1]>> \o Replace(Tail(s), old, new)

RECURSIVE ReidentifyFrom(_, _, _)
ReidentifyFrom(s, table, n) ==
    IF n > Len(table) THEN s
    ELSE ReidentifyFrom(Replace(s, table[n].k, table[n].v), table, n + 1)

\* reidentify_text: each pair of the table applied in the table's order
reidentify_text(s, table) == ReidentifyFrom(s, table, 1)

\* ---------------------------------------------------------------- inputs
\* The phrases an input text is made of, joined by single blanks.
Phrases ==
    { <<"Mr", ".">>,
      <<"Al", " ", "Bo">>,
      <<"Ottawa">>,
      <<"DOB", ":", " ", "1/2/03">>,
      <<"DOB", ":", "4/5/06">> }

RECURSIVE JoinPhrases(_)
JoinPhrases(ps) ==
    IF ps = <<>> THEN <<>>
    ELSE IF Len(ps) = 1 THEN ps[1]
    ELSE ps[1] \o <<" ">> \o JoinPhrases(Tail(ps))

Texts ==
    { JoinPhrases(ps) : ps \in UNION { [1..n -> Phrases] : n \in 0..MaxPhrases } }

\* ----------------------------------------------------------------- state
VARIABLES
    reference_table,     \* Deidentifier.reference_table
    pc,                  \* where deidentify_text stands
    text,                \* deidentify_text's argument
    deidentified_text,   \* its local of that name
    phi,                 \* index of the category being processed
    pat,                 \* index of the pattern within the category
    matches,             \* list(re.finditer(...)) of the current pattern
    mi,                  \* the match reversed(matches) yields next
    calls,               \* deidentify_text calls returned so far
    issued,              \* history: every (placeholder, original) substituted
    \* DocumentProcessor.split_into_chunks
    ck_pc,               \* where split_into_chunks stands
    chunk_text,          \* its argument text
    max_chunk_size,      \* self.max_chunk_size
    chunk_overlap,       \* self.chunk_overlap
    paragraphs,          \* text.split('\n')
    para,                \* index of the paragraph the loop takes next
    chunks,              \* the list returned
    current_chunk,       \* the lines of the chunk being filled
    current_length,      \* its length as the code counts it
    overlap_paragraphs,  \* the lines copied from the chunk closed last
    seeds,               \* history: the overlap_paragraphs each chunk began with
    \* DocumentProcessor._extract_section
    ex_pc,               \* where _extract_section stands
    content,             \* its argument content
    keywords,            \* its argument keywords
    lines,               \* content.split('\n')
    start,               \* first line of the slice returned, counted from 1
    end,                 \* last line of the slice returned, counted from 1
    scores,              \* history: total_score of each line
    best_match,          \* the line of the highest total_score, 0 for None
    best_score,          \* that score
    result,              \* the text returned
    \* DocumentProcessor.organize_content
    og_pc,               \* where organize_content stands
    documents,           \* its argument: a list of file paths, or a dict
    documents_dict,      \* the dict the loop runs over: (doc_name, content)
    doc,                 \* index of the document the loop takes next
    organized_content,   \* the dict returned: (section, text) pairs
    \* the other calls on the Deidentifier, and the file it saves to
    sv_pc,               \* where save_reference_table stands
    sv_snapshot,         \* the table as json.dump began to iterate it
    sv_calls,            \* history: calls as the save began, -1 within a call
    store_kind,          \* the file ref_table_<session_id>.json: its state
    store_text,          \* the text it holds
    last_call,           \* history: the last call returned, with its result
    \* several Deidentifier objects on one ref_table_path
    clock,               \* datetime.now(), in ticks
    session_ids,         \* the session_id of each Deidentifier constructed
    ref_table_files,     \* the files of the directory: name and writer
    \* ClaudeAPIClient.generate_narrative, one section_name
    nr_pc,               \* where each thread stands in generate_narrative
    content_id,          \* the content_id of each thread's call
    section_locks,       \* section_locks[section_name]: 0 absent, or a lock
    lock_holder,         \* each threading.Lock made: 0 free, or who locked it
    processing_sections, \* the global set of that name
    \* DocumentProcessor.process_documents
    rp_pc,               \* where process_documents stands
    api_available,       \* self.api_client.is_available()
    rp_reference_table,  \* its argument reference_table
    rp_section,          \* index of the section the loop takes next
    report_content,      \* the dict returned: (section, text) pairs
    outcomes,            \* history: how the enhancement of each section went
    \* app.py: process_files, then finalize_report
    web_pc,              \* where the two requests stand
    file_text,           \* the content of the file of the input directory
    app_reference_table, \* reference_table of the Deidentifier of line 80
    draft_report,        \* the text of draft_report.txt
    final_report         \* the text of final_report_<timestamp>.txt

deidVars == <<reference_table, pc, text, deidentified_text, phi, pat, matches,
              mi, calls, issued>>

chunkVars == <<ck_pc, chunk_text, max_chunk_size, chunk_overlap, paragraphs,
               para, chunks, current_chunk, current_length,
               overlap_paragraphs, seeds>>

extractVars == <<ex_pc, content, keywords, lines, start, end, scores,
                 best_match, best_score, result>>

organVars == <<og_pc, documents, documents_dict, doc, organized_content>>

sessionVars == <<sv_pc, sv_snapshot, sv_calls, store_kind, store_text,
                 last_call>>

stampVars == <<clock, session_ids, ref_table_files>>

lockVars == <<nr_pc, content_id, section_locks, lock_holder,
              processing_sections>>

reportVars == <<rp_pc, api_available, rp_reference_table, rp_section,
                report_content, outcomes>>

webVars == <<web_pc, file_text, app_reference_table, draft_report,
             final_report>>

vars == <<deidVars, chunkVars, extractVars, organVars, sessionVars,
         stampVars,
         lockVars,
         reportVars,
         webVars>>

\* no Deidentifier constructed on the directory, no file in it
StoreDirectoryEmpty ==
    /\ clock = 0
    /\ session_ids = <<>>
    /\ ref_table_files = <<>>

\* no thread is in generate_narrative; lines 15-18: no lock, empty set
NoNarrativeCall ==
    /\ nr_pc = <<>>
    /\ content_id = <<>>
    /\ section_locks = 0
    /\ lock_holder = <<>>
    /\ processing_sections = {}

\* no request of the web application is modelled
NoRequest ==
    /\ web_pc = "unused"
    /\ file_text = <<>>
    /\ app_reference_table = <<>>
    /\ draft_report = <<>>
    /\ final_report = <<>>

\* no process_documents call is modelled
NoReport ==
    /\ rp_pc = "unused"
    /\ api_available = FALSE
    /\ rp_reference_table = [given |-> FALSE, table |-> <<>>]
    /\ rp_section = 0
    /\ report_content = <<>>
    /\ outcomes = <<>>

\* no organize_content call is modelled
OrganizerUnused ==
    /\ og_pc = "unused"
    /\ documents = [list |-> FALSE, items |-> <<>>]
    /\ documents_dict = <<>>
    /\ doc = 0
    /\ organized_content = <<>>

\* no call returned yet
NoCall ==
    [op |-> "none", content |-> <<>>, given |-> FALSE, table |-> <<>>,
     path |-> "none", file |-> "none", before |-> <<>>, at |-> 0,
     status |-> "none", ret |-> <<>>]

\* no file saved yet, no save running, no call returned
SessionNew ==
    /\ sv_pc = "idle"
    /\ sv_snapshot = <<>>
    /\ sv_calls = 0
    /\ store_kind = "missing"
    /\ store_text = <<>>
    /\ last_call = NoCall

\* no _extract_section call is modelled
ExtractorUnused ==
    /\ ex_pc = "unused"
    /\ content = <<>>
    /\ keywords = <<>>
    /\ lines = <<>>
    /\ start = 0
    /\ end = 0
    /\ scores = <<>>
    /\ best_match = 0
    /\ best_score = 0
    /\ result = <<>>

\* no split_into_chunks call is modelled
ChunkerUnused ==
    /\ ck_pc = "unused"
    /\ chunk_text = <<>>
    /\ max_chunk_size = 0
    /\ chunk_overlap = 0
    /\ paragraphs = <<>>
    /\ para = 0
    /\ chunks = <<>>
    /\ current_chunk = <<>>
    /\ current_length = 0
    /\ overlap_paragraphs = <<>>
    /\ seeds = <<>>

\* a Deidentifier as constructed, no call running
DeidentifierNew ==
    /\ reference_table = <<>>
    /\ pc = "idle"
    /\ text = <<>>
    /\ deidentified_text = <<>>
    /\ phi = 1
    /\ pat = 1
    /\ matches = <<>>
    /\ mi = 0
    /\ calls = 0
    /\ issued = <<>>

Init ==
    /\ DeidentifierNew
    /\ ChunkerUnused
    /\ ExtractorUnused
    /\ OrganizerUnused
    /\ SessionNew
    /\ NoRequest
    /\ NoReport
    /\ NoNarrativeCall
    /\ StoreDirectoryEmpty

\* the text line 125 searches
SearchedText_argument == text

SearchedText == deidentified_text

\* deidentify_text(text): entry, line 118
DeidentifyText ==
    /\ pc = "idle"
    /\ calls < MaxCalls
    /\ \E t \in Texts :
        /\ text' = t
        /\ deidentified_text' = t
    /\ phi' = 1
    /\ pat' = 1
    /\ pc' = "find"
    /\ UNCHANGED <<reference_table, matches, mi, calls, issued>>
    /\ UNCHANGED <<chunkVars, extractVars, organVars, sessionVars, webVars, reportVars, lockVars, stampVars>>

\* lines 125-129: the matches of the current pattern
FindMatches ==
    /\ pc = "find"
    /\ matches' = finditer(patterns(phi_types[phi])[pat], SearchedText)
    /\ mi' = Len(matches')
    /\ pc' = "loop"
    /\ UNCHANGED <<reference_table, text, deidentified_text, phi, pat, calls,
                   issued>>
    /\ UNCHANGED <<chunkVars, extractVars, organVars, sessionVars, webVars, reportVars, lockVars, stampVars>>

\* lines 130-135: a match that is a professional term is skipped
SkipMatch ==
    /\ pc = "loop"
    /\ mi > 0
    /\ _is_professional_term(matches[mi].group)
    /\ mi' = mi - 1
    /\ UNCHANGED <<reference_table, pc, text, deidentified_text, phi, pat,
                   matches, calls, issued>>
    /\ UNCHANGED <<chunkVars, extractVars, organVars, sessionVars, webVars, reportVars, lockVars, stampVars>>

\* lines 130-144: a match is replaced by a fresh placeholder
ReplaceMatch ==
    /\ pc = "loop"
    /\ mi > 0
    /\ ~_is_professional_term(matches[mi].group)
    /\ \E id \in Ids :
        LET m == matches[mi]
            placeholder == _generate_placeholder(phi_types[phi], id)
        IN  /\ reference_table' = SetItem(reference_table, placeholder, m.group)
            /\ deidentified_text' =
                   SliceTo(deidentified_text, m.start) \o placeholder
                   \o SliceFrom(deidentified_text, m.end)
            /\ issued' = Append(issued, [k |-> placeholder, v |-> m.group])
    /\ mi' = mi - 1
    /\ UNCHANGED <<pc, text, phi, pat, matches, calls>>
    /\ UNCHANGED <<chunkVars, extractVars, organVars, sessionVars, webVars, reportVars, lockVars, stampVars>>

\* lines 121-123: the next pattern, the next category, or the return
NextPattern ==
    /\ pc = "loop"
    /\ mi = 0
    /\ IF pat < Len(patterns(phi_types[phi]))
       THEN pat' = pat + 1 /\ phi' = phi /\ pc' = "find"
       ELSE IF phi < Len(phi_types)
            THEN pat' = 1 /\ phi' = phi + 1 /\ pc' = "find"
            ELSE pat' = pat /\ phi' = phi /\ pc' = "ret"
    /\ UNCHANGED <<reference_table, text, deidentified_text, matches, mi,
                   calls, issued>>
    /\ UNCHANGED <<chunkVars, extractVars, organVars, sessionVars, webVars, reportVars, lockVars, stampVars>>

\* line 146: return deidentified_text; the locals go
Return ==
    /\ pc = "ret"
    /\ pc' = "idle"
    /\ calls' = calls + 1
    /\ text' = <<>>
    /\ deidentified_text' = <<>>
    /\ matches' = <<>>
    /\ phi' = 1
    /\ pat' = 1
    /\ UNCHANGED <<reference_table, mi, issued>>
    /\ UNCHANGED <<chunkVars, extractVars, organVars, sessionVars, webVars, reportVars, lockVars, stampVars>>

Next ==
    \/ DeidentifyText
    \/ FindMatches
    \/ SkipMatch
    \/ ReplaceMatch
    \/ NextPattern
    \/ Return

Spec == Init /\ [][Next]_vars

\* ----------------------------------------------------- the other calls
\* reidentify_text, reidentify_content, load_reference_table and
\* save_reference_table.  The first three are taken between deidentify_text
\* calls; a save runs beside them, as a second thread of the application
\* would run it: neither method holds a lock.

\* the texts given to be re-identified: the placeholders
ReidContents ==
    LET ps == { _generate_placeholder(phi_types[n], id) :
                  n \in 1..Len(phi_types), id \in Ids }
    IN  ps \cup { p \o <<" ">> \o p : p \in ps }

\* the reference_table argument of reidentify_content: left out (None), an
\* empty dict, a dict of one pair
GivenTables ==
    { [given |-> FALSE, table |-> <<>>],
      [given |-> TRUE, table |-> <<>>],
      [given |-> TRUE,
       table |-> << [k |-> _generate_placeholder("DATE", IdNames[1]),
                     v |-> <<"4/5/06">>] >>] }

\* line 218: reference_table if reference_table else self.reference_table;
\* None and the empty dict are both false
RefTable(g, own) == IF g.given /\ g.table # <<>> THEN g.table ELSE own

\* a value of the table that is not a str (a JSON number) is held as this
\* mark followed by its JSON text
NotStr == "(not str)"

IsStr(v) == v = <<>> \/ v[1] # NotStr

\* str.replace(placeholder, original) raises TypeError when original is not
\* a str, whether the placeholder occurs or not
ReplaceRaises(table) == \E n \in 1..Len(table) : ~IsStr(table[n].v)

\* lines 148-164
ReidentifyText ==
    /\ pc = "idle"
    /\ sv_pc = "idle"
    /\ \E c \in ReidContents :
        last_call' =
            IF ReplaceRaises(reference_table)
            THEN [NoCall EXCEPT !.op = "reidentify_text", !.content = c,
                                !.before = reference_table,
                                !.status = "raised"]
            ELSE [NoCall EXCEPT !.op = "reidentify_text", !.content = c,
                                !.before = reference_table,
                                !.status = "returned",
                                !.ret = reidentify_text(c, reference_table)]
    /\ UNCHANGED <<sv_pc, sv_snapshot, sv_calls, store_kind, store_text>>
    /\ UNCHANGED <<deidVars, chunkVars, extractVars, organVars, webVars, reportVars, lockVars, stampVars>>

\* lines 206-226, content a str (lines 229-238 do the same to each str
\* value of a dict)
ReidentifyContent ==
    /\ pc = "idle"
    /\ sv_pc = "idle"
    /\ \E c \in ReidContents : \E g \in GivenTables :
        last_call' =
            IF ReplaceRaises(RefTable(g, reference_table))
            THEN [NoCall EXCEPT
                    !.op = "reidentify_content", !.content = c,
                    !.given = g.given, !.table = g.table,
                    !.before = reference_table, !.status = "raised"]
            ELSE [NoCall EXCEPT
                    !.op = "reidentify_content", !.content = c,
                    !.given = g.given, !.table = g.table,
                    !.before = reference_table, !.status = "returned",
                    !.ret = reidentify_text(c, RefTable(g, reference_table))]
    /\ UNCHANGED <<sv_pc, sv_snapshot, sv_calls, store_kind, store_text>>
    /\ UNCHANGED <<deidVars, chunkVars, extractVars, organVars, webVars, reportVars, lockVars, stampVars>>

\* ------------------------------------------------------------ the JSON file
\* The text json.dump(table, f, indent=2) writes and json.load reads, as a
\* sequence of tokens: the punctuation of JSON, the line break, the
\* indentation, and between two quotes the tokens of a str.  No token of a
\* placeholder or of a matched text is a quote or a backslash, so none is
\* escaped.
Quote == "\""
Indent == "  "
KeySeparator == ": "
JsonWhitespace == {"\n", Indent, " "}
JsonNumbers == {"5"}

\* a str between quotes, any other value as its JSON text
JsonValue(v) ==
    IF IsStr(v) THEN <<Quote>> \o v \o <<Quote>> ELSE Tail(v)

RECURSIVE JsonMembers(_, _, _)
\* the members from the n-th to the last-th, each on its line
JsonMembers(table, n, last) ==
    <<Indent, Quote>> \o table[n].k \o <<Quote, KeySeparator>>
    \o JsonValue(table[n].v)
    \o (IF n < last
        THEN <<",", "\n">> \o JsonMembers(table, n + 1, last)
        ELSE <<>>)

\* the mutant: no comma between two members
json_dump_without_commas(table) ==
    IF table = <<>> THEN <<"{", "}">>
    ELSE <<"{", "\n">>
         \o SelectSeq(JsonMembers(table, 1, Len(table)), LAMBDA t : t # ",")
         \o <<"\n", "}">>

\* line 176: json.dump(self.reference_table, f, indent=2)
json_dump(table) ==
    IF table = <<>> THEN <<"{", "}">>
    ELSE <<"{", "\n">> \o JsonMembers(table, 1, Len(table)) \o <<"\n", "}">>

\* what line 176 has written when the dict iterator raises after n members
DumpPrefix(table, n) == <<"{", "\n">> \o JsonMembers(table, 1, n)

RECURSIVE SkipWhitespace(_, _)
SkipWhitespace(s, i) ==
    IF i <= Len(s) /\ s[i] \in JsonWhitespace
    THEN SkipWhitespace(s, i + 1) ELSE i

RECURSIVE QuoteFrom(_, _)
\* the first quote from j on, 0 when there is none
QuoteFrom(s, j) ==
    IF j > Len(s) THEN 0
    ELSE IF s[j] = Quote THEN j
    ELSE QuoteFrom(s, j + 1)

\* the quote that closes the str opened at i, 0 when there is none
CloseQuote(s, i) == QuoteFrom(s, i + 1)

\* json.JSONDecodeError
JsonError == [ok |-> FALSE, value |-> <<>>]

\* the value at i: a str or a number, with the position after it
ParseValue(s, i) ==
    IF i > Len(s) THEN [ok |-> FALSE, value |-> <<>>, next |-> i]
    ELSE IF s[i] = Quote
    THEN LET e == CloseQuote(s, i)
         IN  IF e = 0 THEN [ok |-> FALSE, value |-> <<>>, next |-> i]
             ELSE [ok |-> TRUE, value |-> SubSeq(s, i + 1, e - 1),
                   next |-> e + 1]
    ELSE IF s[i] \in JsonNumbers
    THEN [ok |-> TRUE, value |-> <<NotStr, s[i]>>, next |-> i + 1]
    ELSE [ok |-> FALSE, value |-> <<>>, next |-> i]

RECURSIVE ParseMembers(_, _, _)
\* the members of an object from position i on, put into the dict acc; a
\* key met again takes the later value
ParseMembers(s, i, acc) ==
    LET key == ParseValue(s, i)
        colon == SkipWhitespace(s, key.next)
        val == ParseValue(s, SkipWhitespace(s, colon + 1))
        after == SkipWhitespace(s, val.next)
    IN  IF ~key.ok \/ ~IsStr(key.value) THEN JsonError
        ELSE IF colon > Len(s) \/ s[colon] # KeySeparator THEN JsonError
        ELSE IF ~val.ok \/ after > Len(s) THEN JsonError
        ELSE IF s[after] = ","
        THEN ParseMembers(s, SkipWhitespace(s, after + 1),
                          SetItem(acc, key.value, val.value))
        ELSE IF s[after] = "}" /\ SkipWhitespace(s, after + 1) > Len(s)
        THEN [ok |-> TRUE, value |-> SetItem(acc, key.value, val.value)]
        ELSE JsonError

\* line 192: json.load(f), for a text that is an object or is not JSON
json_load(s) ==
    LET i == SkipWhitespace(s, 1)
        j == SkipWhitespace(s, i + 1)
    IN  IF i > Len(s) \/ s[i] # "{" THEN JsonError
        ELSE IF j <= Len(s) /\ s[j] = "}" /\ SkipWhitespace(s, j + 1) > Len(s)
        THEN [ok |-> TRUE, value |-> <<>>]
        ELSE ParseMembers(s, j, <<>>)

\* the files load_reference_table is pointed at: a path without a file, a
\* file that is not JSON, a file of bytes that are not text in the default
\* encoding, a JSON object with a number for a value, and the file this
\* session saves to
Files == {"absent", "not_json", "not_text", "number_value", "saved"}

\* the text of a file that can be read
FileText(file) ==
    CASE file = "not_json" -> <<"not", " ", "json">>
      [] file = "number_value" ->
             <<"{", Quote>> \o _generate_placeholder("DATE", IdNames[1])
             \o <<Quote, KeySeparator, "5", "}">>
      [] OTHER -> store_text

\* what open and json.load find there
FileKind(file) ==
    CASE file = "absent" -> "missing"
      [] file = "not_text" -> "undecodable"
      [] file = "saved" /\ store_kind = "missing" -> "missing"
      [] OTHER -> IF json_load(FileText(file)).ok
                  THEN "table" ELSE "malformed_json"

\* lines 190-195: open raises FileNotFoundError, json.load raises
\* JSONDecodeError, both caught; f.read() raises UnicodeDecodeError, which
\* is not
LoadStatus(kind) ==
    CASE kind = "table" -> "True"
      [] kind \in {"missing", "malformed_json"} -> "False"
      [] OTHER -> "raised"

\* lines 180-195
LoadReferenceTable ==
    /\ pc = "idle"
    /\ sv_pc = "idle"
    /\ \E file \in Files :
        LET kind == FileKind(file)
        IN  /\ reference_table' =
                   IF kind = "table"
                   THEN json_load(FileText(file)).value ELSE reference_table
            /\ last_call' = [NoCall EXCEPT !.op = "load_reference_table",
                                           !.path = file,
                                           !.file = kind,
                                           !.before = reference_table,
                                           !.status = LoadStatus(kind)]
    /\ UNCHANGED <<pc, text, deidentified_text, phi, pat, matches, mi, calls,
                   issued>>
    /\ UNCHANGED <<sv_pc, sv_snapshot, sv_calls, store_kind, store_text>>
    /\ UNCHANGED <<chunkVars, extractVars, organVars, webVars, reportVars, lockVars, stampVars>>

\* lines 166-178, with no other call running
SaveReferenceTable ==
    /\ pc = "idle"
    /\ sv_pc = "idle"
    /\ sv_snapshot' = reference_table
    /\ sv_calls' = calls
    /\ store_kind' = "file"
    /\ store_text' = json_dump(reference_table)
    /\ last_call' = [NoCall EXCEPT !.op = "save_reference_table",
                                   !.path = "saved",
                                   !.before = reference_table,
                                   !.at = calls,
                                   !.status = "returned"]
    /\ UNCHANGED sv_pc
    /\ UNCHANGED <<deidVars, chunkVars, extractVars, organVars, webVars, reportVars, lockVars, stampVars>>

\* lines 173-176, beside a deidentify_text call: open(ref_table_file, 'w')
\* empties the file, json.dump begins to iterate the table
SaveOpen ==
    /\ sv_pc = "idle"
    /\ sv_pc' = "dump"
    /\ sv_snapshot' = reference_table
    /\ sv_calls' = IF pc = "idle" THEN calls ELSE -1
    /\ store_kind' = "file"
    /\ store_text' = <<>>
    /\ UNCHANGED last_call
    /\ UNCHANGED <<deidVars, chunkVars, extractVars, organVars, webVars, reportVars, lockVars, stampVars>>

\* lines 175-178: the iteration ends and the file is closed.  A table that
\* got a new key while a non-empty table was iterated makes the dict
\* iterator raise RuntimeError, the members written so far stay in the file
SaveFinish ==
    /\ sv_pc = "dump"
    /\ sv_pc' = "idle"
    /\ IF sv_snapshot # <<>> /\ Len(reference_table) # Len(sv_snapshot)
       THEN /\ \E n \in 1..Len(sv_snapshot) :
                   store_text' = DumpPrefix(sv_snapshot, n)
            /\ UNCHANGED store_kind
            /\ last_call' = [NoCall EXCEPT !.op = "save_reference_table",
                                           !.path = "saved",
                                           !.before = sv_snapshot,
                                           !.at = sv_calls,
                                           !.status = "raised"]
       ELSE /\ store_kind' = "file"
            /\ store_text' = json_dump(sv_snapshot)
            /\ last_call' = [NoCall EXCEPT !.op = "save_reference_table",
                                           !.path = "saved",
                                           !.before = sv_snapshot,
                                           !.at = sv_calls,
                                           !.status = "returned"]
    /\ UNCHANGED <<sv_snapshot, sv_calls>>
    /\ UNCHANGED <<deidVars, chunkVars, extractVars, organVars, webVars, reportVars, lockVars, stampVars>>

\* deidentify_text calls with a save beside them
NextConcurrent ==
    \/ Next
    \/ SaveOpen
    \/ SaveFinish

SpecConcurrent == Init /\ [][NextConcurrent]_vars

\* every call on one Deidentifier, one after the other
NextSession ==
    \/ Next
    \/ ReidentifyText
    \/ ReidentifyContent
    \/ LoadReferenceTable
    \/ SaveReferenceTable

SpecSession == Init /\ [][NextSession]_vars

\* --------------------------------------- sessions on one store directory
\* the clock ticks this many times in a second
TicksPerSecond == 2

\* line 38: datetime.now().strftime("%Y%m%d_%H%M%S"), the time cut to the
\* second
strftime(now) == now \div TicksPerSecond

\* line 173: f"ref_table_{self.session_id}.json"
RefTableFile(session_id) == <<"ref_table_", session_id, ".json">>

\* time passes
Tick ==
    /\ clock < MaxClock
    /\ clock' = clock + 1
    /\ UNCHANGED <<session_ids, ref_table_files>>
    /\ UNCHANGED <<deidVars, chunkVars, extractVars, organVars, sessionVars, webVars, reportVars, lockVars>>

\* lines 28-39: a Deidentifier is constructed on the directory
NewDeidentifier ==
    /\ Len(session_ids) < MaxSessions
    /\ session_ids' = Append(session_ids, strftime(clock))
    /\ UNCHANGED <<clock, ref_table_files>>
    /\ UNCHANGED <<deidVars, chunkVars, extractVars, organVars, sessionVars, webVars, reportVars, lockVars>>

\* lines 173-178: Deidentifier d saves its table; open(..., 'w') makes the
\* file or overwrites the one of that name
SaveSession ==
    /\ \E d \in 1..Len(session_ids) :
           ref_table_files' =
               SetItem(ref_table_files, RefTableFile(session_ids[d]), d)
    /\ UNCHANGED <<clock, session_ids>>
    /\ UNCHANGED <<deidVars, chunkVars, extractVars, organVars, sessionVars, webVars, reportVars, lockVars>>

InitSessions ==
    /\ DeidentifierNew
    /\ ChunkerUnused
    /\ ExtractorUnused
    /\ OrganizerUnused
    /\ SessionNew
    /\ NoRequest
    /\ NoReport
    /\ NoNarrativeCall
    /\ StoreDirectoryEmpty

NextSessions ==
    \/ Tick
    \/ NewDeidentifier
    \/ SaveSession

SpecSessions == InitSessions /\ [][NextSessions]_vars

\* ------------------------------------- ClaudeAPIClient.generate_narrative
\* Threads call generate_narrative with the same section_name; the api key
\* is set.  A step is what a thread does between two switches.
Threads == 1..NumThreads

\* hash(content) of the contents the threads pass
ContentHashes == {"h1", "h2"}

\* the others' variables
NarrativeRest == <<deidVars, chunkVars, extractVars, organVars, sessionVars,
                   stampVars, reportVars, webVars>>

\* lines 181-186: content_id in processing_sections, the call returns
SkipProcessing(t) ==
    /\ nr_pc[t] = "start"
    /\ content_id[t] \in processing_sections
    /\ nr_pc' = [nr_pc EXCEPT ![t] = "skipped"]
    /\ UNCHANGED <<content_id, section_locks, lock_holder,
                   processing_sections>>
    /\ UNCHANGED NarrativeRest

\* lines 181-189: content_id not in the set; section_name not in
\* section_locks is evaluated
CheckLock(t) ==
    /\ nr_pc[t] = "start"
    /\ content_id[t] \notin processing_sections
    /\ nr_pc' = [nr_pc EXCEPT ![t] = IF section_locks = 0
                                     THEN "create" ELSE "acquire"]
    /\ UNCHANGED <<content_id, section_locks, lock_holder,
                   processing_sections>>
    /\ UNCHANGED NarrativeRest

\* line 190: section_locks[section_name] = threading.Lock()
CreateLock(t) ==
    /\ nr_pc[t] = "create"
    /\ lock_holder' = Append(lock_holder, 0)
    /\ section_locks' = Len(lock_holder) + 1
    /\ nr_pc' = [nr_pc EXCEPT ![t] = "acquire"]
    /\ UNCHANGED <<content_id, processing_sections>>
    /\ UNCHANGED NarrativeRest

\* lines 193-195: acquire(blocking=False) on the lock now in the dict; the
\* call returns when it is locked
Acquire(t) ==
    /\ nr_pc[t] = "acquire"
    /\ IF lock_holder[section_locks] # 0
       THEN /\ nr_pc' = [nr_pc EXCEPT ![t] = "skipped"]
            /\ UNCHANGED lock_holder
       ELSE /\ nr_pc' = [nr_pc EXCEPT ![t] = "locked"]
            /\ lock_holder' = [lock_holder EXCEPT ![section_locks] = t]
    /\ UNCHANGED <<content_id, section_locks, processing_sections>>
    /\ UNCHANGED NarrativeRest

\* lines 197-199: processing_sections.add(content_id)
AddProcessing(t) ==
    /\ nr_pc[t] = "locked"
    /\ processing_sections' = processing_sections \cup {content_id[t]}
    /\ nr_pc' = [nr_pc EXCEPT ![t] = "processing"]
    /\ UNCHANGED <<content_id, section_locks, lock_holder>>
    /\ UNCHANGED NarrativeRest

\* lines 201-309: the section is processed, then finally:
\* processing_sections.discard(content_id)
DiscardProcessing(t) ==
    /\ nr_pc[t] = "processing"
    /\ processing_sections' = processing_sections \ {content_id[t]}
    /\ nr_pc' = [nr_pc EXCEPT ![t] = "release"]
    /\ UNCHANGED <<content_id, section_locks, lock_holder>>
    /\ UNCHANGED NarrativeRest

\* line 310: release() on the lock now in the dict; RuntimeError when it
\* is not locked
Release(t) ==
    /\ nr_pc[t] = "release"
    /\ IF lock_holder[section_locks] = 0
       THEN /\ nr_pc' = [nr_pc EXCEPT ![t] = "raised"]
            /\ UNCHANGED lock_holder
       ELSE /\ nr_pc' = [nr_pc EXCEPT ![t] = "returned"]
            /\ lock_holder' = [lock_holder EXCEPT ![section_locks] = 0]
    /\ UNCHANGED <<content_id, section_locks, processing_sections>>
    /\ UNCHANGED NarrativeRest

\* each thread is about to call generate_narrative
InitNarrative ==
    /\ DeidentifierNew
    /\ ChunkerUnused
    /\ ExtractorUnused
    /\ OrganizerUnused
    /\ SessionNew
    /\ NoRequest
    /\ NoReport
    /\ StoreDirectoryEmpty
    /\ nr_pc = [t \in Threads |-> "start"]
    /\ content_id \in [Threads -> ContentHashes]
    /\ section_locks = 0
    /\ lock_holder = <<>>
    /\ processing_sections = {}

NextNarrative ==
    \E t \in Threads :
        \/ SkipProcessing(t)
        \/ CheckLock(t)
        \/ CreateLock(t)
        \/ Acquire(t)
        \/ AddProcessing(t)
        \/ DiscardProcessing(t)
        \/ Release(t)

SpecNarrative == InitNarrative /\ [][NextNarrative]_vars

\* ------------------------------------------------- saving and loading again
\* the texts deidentify_text replaces by a placeholder of a category: the
\* matches of its patterns in the texts of one phrase or two
Originals(phi_type) ==
    { m.group :
        m \in UNION { { finditer(patterns(phi_type)[n], t)[i] :
                          i \in 1..Len(finditer(patterns(phi_type)[n], t)) } :
                        n \in 1..Len(patterns(phi_type)),
                        t \in { JoinPhrases(ps) :
                                  ps \in [{1} -> Phrases]
                                         \cup [{1, 2} -> Phrases] } } }

\* the pairs line 140 can put in the table
Pairs ==
    UNION { [k : {_generate_placeholder(phi_types[n], id) : id \in Ids},
             v : {g \in Originals(phi_types[n]) : ~_is_professional_term(g)}] :
            n \in 1..Len(phi_types) }

\* the tables deidentify_text calls leave: at most MaxPairs pairs, no
\* placeholder twice; the identifier of the n-th placeholder is the n-th
\* of IdNames
Tables ==
    { t \in UNION { [1..n -> Pairs] : n \in 0..MaxPairs } :
        \A i \in DOMAIN t : t[i].k[4] = IdNames[i] }

\* a Deidentifier after its deidentify_text calls, no file saved yet
InitPersist ==
    /\ reference_table \in Tables
    /\ issued = reference_table
    /\ pc = "idle"
    /\ text = <<>>
    /\ deidentified_text = <<>>
    /\ phi = 1
    /\ pat = 1
    /\ matches = <<>>
    /\ mi = 0
    /\ calls = MaxCalls
    /\ ChunkerUnused
    /\ ExtractorUnused
    /\ OrganizerUnused
    /\ SessionNew
    /\ NoRequest
    /\ NoReport
    /\ NoNarrativeCall
    /\ StoreDirectoryEmpty

\* lines 21-39: another Deidentifier is constructed on the same directory;
\* its table is empty, the files stay
Construct ==
    /\ pc = "idle"
    /\ sv_pc = "idle"
    /\ reference_table # <<>>
    /\ reference_table' = <<>>
    /\ issued' = <<>>
    /\ last_call' = [NoCall EXCEPT !.op = "__init__"]
    /\ UNCHANGED <<pc, text, deidentified_text, phi, pat, matches, mi, calls>>
    /\ UNCHANGED <<sv_pc, sv_snapshot, sv_calls, store_kind, store_text>>
    /\ UNCHANGED <<chunkVars, extractVars, organVars, webVars, reportVars, lockVars, stampVars>>

\* a table is saved, loaded by a new Deidentifier and used
NextPersist ==
    \/ SaveReferenceTable
    \/ Construct
    \/ LoadReferenceTable
    \/ ReidentifyText

SpecPersist == InitPersist /\ [][NextPersist]_vars

\* ---------------------------------------------------------------- chunker
\* DocumentProcessor.split_into_chunks.  Here a text is a sequence of
\* characters.
NL == "\n"

Chars == {"a", "b", NL}

RECURSIVE SplitLines(_)
\* str.split('\n'): the text is cut at each NL; the cutting starts at an
\* NL near the middle, which keeps the recursion shallow
SplitLines(s) ==
    IF \A i \in 1..Len(s) : s[i] # NL THEN <<s>>
    ELSE LET mid == (Len(s) + 1) \div 2
             i == IF \E k \in mid..Len(s) : s[k] = NL
                  THEN CHOOSE k \in mid..Len(s) : s[k] = NL
                  ELSE CHOOSE k \in 1..mid : s[k] = NL
         IN  SplitLines(SubSeq(s, 1, i - 1))
             \o SplitLines(SubSeq(s, i + 1, Len(s)))

RECURSIVE JoinLines(_)
\* '\n'.join(lines)
JoinLines(ls) ==
    IF ls = <<>> THEN <<>>
    ELSE IF Len(ls) = 1 THEN ls[1]
    ELSE LET h == Len(ls) \div 2
         IN  JoinLines(SubSeq(ls, 1, h)) \o <<NL>>
             \o JoinLines(SubSeq(ls, h + 1, Len(ls)))

\* the mutant: the length of the line to copy is left out of the test
OverlapFits_without_line(overlap_size, p, overlap) == overlap_size <= overlap

\* line 124: overlap_size + len(p) <= self.chunk_overlap
OverlapFits(overlap_size, p, overlap) == overlap_size + Len(p) <= overlap

RECURSIVE OverlapFrom(_, _, _, _, _)
\* lines 123-128: the lines of chunk from the n-th back, put in front of
\* acc while they fit
OverlapFrom(chunk, n, overlap_size, acc, overlap) ==
    IF n = 0 THEN [paragraphs |-> acc, size |-> overlap_size]
    ELSE IF OverlapFits(overlap_size, chunk[n], overlap)
         THEN OverlapFrom(chunk, n - 1, overlap_size + Len(chunk[n]) + 1,
                          <<chunk[n]>> \o acc, overlap)
         ELSE [paragraphs |-> acc, size |-> overlap_size]

\* lines 119-128
Overlap(chunk, overlap) == OverlapFrom(chunk, Len(chunk), 0, <<>>, overlap)

ChunkTexts == UNION { [1..n -> Chars] : n \in 0..MaxTextLen }

\* split_into_chunks is called on a text, with the configured sizes
InitChunk ==
    /\ DeidentifierNew
    /\ ExtractorUnused
    /\ OrganizerUnused
    /\ SessionNew
    /\ NoRequest
    /\ NoReport
    /\ NoNarrativeCall
    /\ StoreDirectoryEmpty
    /\ ck_pc = "start"
    /\ chunk_text \in ChunkTexts
    /\ max_chunk_size \in 1..MaxChunkSize
    /\ chunk_overlap \in 0..MaxOverlap
    /\ paragraphs = <<>>
    /\ para = 0
    /\ chunks = <<>>
    /\ current_chunk = <<>>
    /\ current_length = 0
    /\ overlap_paragraphs = <<>>
    /\ seeds = <<>>

\* the mutant: a text within the limit is returned line by line
ReturnWhole_by_lines ==
    /\ ck_pc = "start"
    /\ Len(chunk_text) <= max_chunk_size
    /\ chunks' = SplitLines(chunk_text)
    /\ seeds' = [n \in 1..Len(SplitLines(chunk_text)) |-> <<>>]
    /\ ck_pc' = "done"
    /\ UNCHANGED <<chunk_text, max_chunk_size, chunk_overlap, paragraphs, para,
                   current_chunk, current_length, overlap_paragraphs>>
    /\ UNCHANGED <<deidVars, extractVars, organVars, sessionVars, webVars, reportVars, lockVars, stampVars>>

\* lines 104-105: a text within the limit is the sole chunk
ReturnWhole ==
    /\ ck_pc = "start"
    /\ Len(chunk_text) <= max_chunk_size
    /\ chunks' = <<chunk_text>>
    /\ seeds' = << <<>> >>
    /\ ck_pc' = "done"
    /\ UNCHANGED <<chunk_text, max_chunk_size, chunk_overlap, paragraphs, para,
                   current_chunk, current_length, overlap_paragraphs>>
    /\ UNCHANGED <<deidVars, extractVars, organVars, sessionVars, webVars, reportVars, lockVars, stampVars>>

\* lines 108-111
SplitParagraphs ==
    /\ ck_pc = "start"
    /\ Len(chunk_text) > max_chunk_size
    /\ paragraphs' = SplitLines(chunk_text)
    /\ para' = 1
    /\ ck_pc' = "loop"
    /\ UNCHANGED <<chunk_text, max_chunk_size, chunk_overlap, chunks,
                   current_chunk, current_length, overlap_paragraphs, seeds>>
    /\ UNCHANGED <<deidVars, extractVars, organVars, sessionVars, webVars, reportVars, lockVars, stampVars>>

\* lines 113-134: one turn of the loop over the paragraphs
ProcessParagraph ==
    /\ ck_pc = "loop"
    /\ para <= Len(paragraphs)
    /\ LET paragraph == paragraphs[para]
       IN  IF /\ current_length + Len(paragraph) > max_chunk_size
              /\ current_chunk # <<>>
           THEN LET o == Overlap(current_chunk, chunk_overlap)
                IN  /\ chunks' = Append(chunks, JoinLines(current_chunk))
                    /\ seeds' = Append(seeds, overlap_paragraphs)
                    /\ overlap_paragraphs' = o.paragraphs
                    /\ current_chunk' = Append(o.paragraphs, paragraph)
                    /\ current_length' = o.size + Len(paragraph) + 1
           ELSE /\ current_chunk' = Append(current_chunk, paragraph)
                /\ current_length' = current_length + Len(paragraph) + 1
                /\ UNCHANGED <<chunks, seeds, overlap_paragraphs>>
    /\ para' = para + 1
    /\ UNCHANGED <<ck_pc, chunk_text, max_chunk_size, chunk_overlap,
                   paragraphs>>
    /\ UNCHANGED <<deidVars, extractVars, organVars, sessionVars, webVars, reportVars, lockVars, stampVars>>

\* the mutant: the lines left at the end of the loop are not returned
LastChunk_without_remainder ==
    /\ ck_pc = "loop"
    /\ para > Len(paragraphs)
    /\ ck_pc' = "done"
    /\ UNCHANGED <<chunk_text, max_chunk_size, chunk_overlap, paragraphs, para,
                   chunks, seeds, current_chunk, current_length,
                   overlap_paragraphs>>
    /\ UNCHANGED <<deidVars, extractVars, organVars, sessionVars, webVars, reportVars, lockVars, stampVars>>

\* lines 136-140: the last chunk, and the return
LastChunk ==
    /\ ck_pc = "loop"
    /\ para > Len(paragraphs)
    /\ IF current_chunk # <<>>
       THEN /\ chunks' = Append(chunks, JoinLines(current_chunk))
            /\ seeds' = Append(seeds, overlap_paragraphs)
       ELSE UNCHANGED <<chunks, seeds>>
    /\ ck_pc' = "done"
    /\ UNCHANGED <<chunk_text, max_chunk_size, chunk_overlap, paragraphs, para,
                   current_chunk, current_length, overlap_paragraphs>>
    /\ UNCHANGED <<deidVars, extractVars, organVars, sessionVars, webVars, reportVars, lockVars, stampVars>>

NextChunk ==
    \/ ReturnWhole
    \/ SplitParagraphs
    \/ ProcessParagraph
    \/ LastChunk

SpecChunk == InitChunk /\ [][NextChunk]_vars

\* ------------------------------------------------------ section extractor
\* DocumentProcessor._extract_section.  Here a text is a sequence of
\* tokens, a line a sequence of tokens without NL, and a keyword a
\* sequence of tokens.  Lines are counted from 1 where the code counts from
\* 0: the code's lines[i] is lines[i + 1] here.

\* line 281 and line 289: a header is shorter than this
HeaderMaxLen == 100
\* line 286: range(i + 1, min(len(lines), i + 50))
HeaderLookahead == 50
\* line 305: sum(2 for keyword in keywords if keyword in line_lower)
LineHitWeight == 2
\* line 309: range(max(0, i-5), min(len(lines), i+5)); line 319: best_match - 5
ContextRadius == 5
\* line 258: context_lines=15, which both callers leave at its default
context_lines == 15
\* line 318: best_score >= 2
ScoreThreshold == 2

\* self.section_keywords (line 48), read from the configuration: the
\* sections in their order, each with its keywords as the configuration
\* writes them, the last one in upper case
section_keywords ==
    << [section |-> "diagnosis", keywords |-> << <<"diagnosis">>, <<"dx">> >>],
       [section |-> "findings", keywords |-> << <<"findings">> >>],
       [section |-> "codes", keywords |-> << <<"DX">> >>] >>

RECURSIVE SumValues(_, _)
\* line 291: sum(self.section_keywords.values(), [])
SumValues(sk, n) ==
    IF n > Len(sk) THEN <<>> ELSE sk[n].keywords \o SumValues(sk, n + 1)

\* a word of 96 lower-case letters
LongWord ==
    "xxxxxxxxxxxxxxxxxxxxxxxxxxxxxxxxxxxxxxxxxxxxxxxxxxxxxxxxxxxxxxxxxxxxxxxxxxxxxxxxxxxxxxxxxxxxxxxx"

\* the tokens that hold a lower-case letter; the other tokens of a line
\* are upper-case words, blanks and punctuation
LowerWords ==
    {"diagnosis", "findings", "dx", "x", LongWord, "Mr", "Al", "Bo", "Ottawa",
     "deadbeef", "0badc0de", "cafe0123"}

\* str.isupper(): a cased character, and no lower-case character
isupper(line) ==
    /\ \E k \in 1..Len(line) : Lower(line[k]) # line[k]
    /\ \A k \in 1..Len(line) : line[k] \notin LowerWords

RECURSIVE LineLen(_)
\* len() of a line: the characters of its tokens
LineLen(line) ==
    IF line = <<>> THEN 0 ELSE Len(line[1]) + LineLen(Tail(line))

\* any(keyword in line_lower for keyword in kws)
AnyKeywordIn(kws, line_lower) ==
    \E k \in 1..Len(kws) : Contains(kws[k], line_lower)

\* lines 281 and 289-290: short, and ending in ':' or beginning with '#' or
\* upper-case; the first two of the stripped line, the third of the line
LooksLikeHeader(line) ==
    LET stripped == Strip(line)
    IN  /\ LineLen(stripped) < HeaderMaxLen
        /\ \/ (stripped # <<>> /\ stripped[Len(stripped)] = ":")
           \/ (stripped # <<>> /\ stripped[1] = "#")
           \/ isupper(line)

\* the least member of a set of line numbers
First(S) == CHOOSE i \in S : \A j \in S : i <= j

\* lines 275-281: the first line that holds a keyword and looks like a
\* header, 0 when there is none
HeaderLine(ls, kws) ==
    LET headers == {i \in 1..Len(ls) :
                      /\ AnyKeywordIn(kws, LowerSeq(ls[i]))
                      /\ LooksLikeHeader(ls[i])}
    IN  IF headers = {} THEN 0 ELSE First(headers)

\* lines 285-293: end, as the last line of the slice; j runs over the lines
\* after the header and stops HeaderLookahead - 1 lines after it, and each
\* line is lower-cased before it is tested
SectionEnd(ls, i) ==
    LET last == IF Len(ls) < i + HeaderLookahead - 1
                THEN Len(ls) ELSE i + HeaderLookahead - 1
        breaks == {j \in (i + 1)..last :
                     LET next_line == LowerSeq(ls[j])
                     IN  /\ LooksLikeHeader(next_line)
                         /\ AnyKeywordIn(SumValues(section_keywords, 1),
                                         next_line)}
    IN  IF breaks = {} THEN Len(ls) ELSE First(breaks) - 1

\* the mutant: the keywords of every section are counted
Hits_any_section(kws, line) ==
    Cardinality({k \in 1..Len(SumValues(section_keywords, 1)) :
                   Contains(SumValues(section_keywords, 1)[k], LowerSeq(line))})

\* sum(1 for keyword in kws if keyword in line.lower())
Hits(kws, line) ==
    Cardinality({k \in 1..Len(kws) : Contains(kws[k], LowerSeq(line))})

RECURSIVE ContextScore(_, _, _, _, _)
\* lines 308-311: the hits of the lines j..last but line i
ContextScore(ls, kws, i, j, last) ==
    IF j > last THEN 0
    ELSE (IF j = i THEN 0 ELSE Hits(kws, ls[j]))
         + ContextScore(ls, kws, i, j + 1, last)

\* lines 305-313: total_score of line i; the code's range(max(0, i-5),
\* min(len(lines), i+5)) leaves its upper end out
TotalScore(ls, kws, i) ==
    LET first == IF i - ContextRadius < 1 THEN 1 ELSE i - ContextRadius
        last == IF Len(ls) < i + ContextRadius - 1
                THEN Len(ls) ELSE i + ContextRadius - 1
    IN  LineHitWeight * Hits(kws, ls[i]) + ContextScore(ls, kws, i, first, last)

\* lines 298-316: best_score starts at 0 and a line replaces the best only
\* with a higher score, so the best is the first line of the highest score
\* when that score is above 0, and None (0 here) otherwise
Best(sc) ==
    LET values == {sc[i] : i \in 1..Len(sc)} \cup {0}
        highest == CHOOSE v \in values : \A w \in values : w <= v
    IN  IF highest = 0 THEN [best_match |-> 0, best_score |-> 0]
        ELSE [best_match |-> First({i \in 1..Len(sc) : sc[i] = highest}),
              best_score |-> highest]

\* the lines a content is built from
LineKinds ==
    { <<"x">>, <<"DIAGNOSIS", ":">>, <<"FINDINGS", ":">>, <<"FINDINGS">>,
      <<"dx", " ", "x">>, <<"diagnosis", " ", "dx">>,
      <<"#", " ", "findings">>, <<"dx", ":", " ">>,
      <<"dx", " ", LongWord, ":">> }

\* the lengths of the runs of lines without a keyword
FillerRuns == {ContextRadius - 1, context_lines, HeaderLookahead - 1}

\* a content is made of at most MaxSegments segments, each one line or one
\* run of lines without a keyword
Segments ==
    { <<l>> : l \in LineKinds } \cup
    { [n \in 1..r |-> <<"x">>] : r \in FillerRuns }

RECURSIVE Flatten(_)
Flatten(segs) == IF segs = <<>> THEN <<>> ELSE segs[1] \o Flatten(Tail(segs))

\* the contents: at most one of the segments is a run
Contents ==
    { JoinLines(Flatten(segs)) :
        segs \in { f \in UNION { [1..n -> Segments] : n \in 0..MaxSegments } :
                     Cardinality({k \in DOMAIN f : Len(f[k]) > 1}) <= 1 } }

\* _extract_section is called on a content with the keywords of a section
InitExtract ==
    /\ DeidentifierNew
    /\ ChunkerUnused
    /\ OrganizerUnused
    /\ SessionNew
    /\ NoRequest
    /\ NoReport
    /\ NoNarrativeCall
    /\ StoreDirectoryEmpty
    /\ ex_pc = "start"
    /\ content \in Contents
    /\ \E s \in 1..Len(section_keywords) :
           keywords = section_keywords[s].keywords
    /\ lines = <<>>
    /\ start = 0
    /\ end = 0
    /\ scores = <<>>
    /\ best_match = 0
    /\ best_score = 0
    /\ result = <<>>

\* lines 272-295: a header line is found; the slice from it to the line
\* before the next header is returned
ReturnHeaderSection ==
    /\ ex_pc = "start"
    /\ LET ls == SplitLines(content)
           i == HeaderLine(ls, keywords)
           e == SectionEnd(ls, i)
       IN  /\ i # 0
           /\ lines' = ls
           /\ start' = i
           /\ end' = e
           /\ result' = JoinLines(SubSeq(ls, i, e))
    /\ ex_pc' = "ret_header"
    /\ UNCHANGED <<content, keywords, scores, best_match, best_score>>
    /\ UNCHANGED <<deidVars, chunkVars, organVars, sessionVars, webVars, reportVars, lockVars, stampVars>>

\* lines 272-281: no line both holds a keyword and looks like a header
NoHeader ==
    /\ ex_pc = "start"
    /\ HeaderLine(SplitLines(content), keywords) = 0
    /\ lines' = SplitLines(content)
    /\ ex_pc' = "score"
    /\ UNCHANGED <<content, keywords, start, end, scores, best_match,
                   best_score, result>>
    /\ UNCHANGED <<deidVars, chunkVars, organVars, sessionVars, webVars, reportVars, lockVars, stampVars>>

\* lines 298-316: every line is scored, the best is kept
ScoreLines ==
    /\ ex_pc = "score"
    /\ scores' = [i \in 1..Len(lines) |-> TotalScore(lines, keywords, i)]
    /\ LET best == Best(scores')
       IN  /\ best_match' = best.best_match
           /\ best_score' = best.best_score
    /\ ex_pc' = "select"
    /\ UNCHANGED <<content, keywords, lines, start, end, result>>
    /\ UNCHANGED <<deidVars, chunkVars, organVars, sessionVars, webVars, reportVars, lockVars, stampVars>>

\* lines 318-321: the window around the best line is returned
ReturnWindow ==
    /\ ex_pc = "select"
    /\ best_match # 0
    /\ best_score >= ScoreThreshold
    /\ LET s == IF best_match - ContextRadius < 1
                THEN 1 ELSE best_match - ContextRadius
           e == IF Len(lines) < best_match + context_lines - 1
                THEN Len(lines) ELSE best_match + context_lines - 1
       IN  /\ start' = s
           /\ end' = e
           /\ result' = JoinLines(SubSeq(lines, s, e))
    /\ ex_pc' = "ret_window"
    /\ UNCHANGED <<content, keywords, lines, scores, best_match, best_score>>
    /\ UNCHANGED <<deidVars, chunkVars, organVars, sessionVars, webVars, reportVars, lockVars, stampVars>>

\* line 324: no section found
ReturnEmpty ==
    /\ ex_pc = "select"
    /\ ~(best_match # 0 /\ best_score >= ScoreThreshold)
    /\ result' = <<>>
    /\ ex_pc' = "ret_empty"
    /\ UNCHANGED <<content, keywords, lines, start, end, scores, best_match,
                   best_score>>
    /\ UNCHANGED <<deidVars, chunkVars, organVars, sessionVars, webVars, reportVars, lockVars, stampVars>>

NextExtract ==
    \/ ReturnHeaderSection
    \/ NoHeader
    \/ ScoreLines
    \/ ReturnWindow
    \/ ReturnEmpty

SpecExtract == InitExtract /\ [][NextExtract]_vars

----------------------------------------------------------------------------
\* DocumentProcessor.organize_content.  A dict is a sequence of (k, v)
\* pairs in insertion order; a text is a sequence of tokens.

\* lines 258-324 as a function of its arguments
_extract_section(c, kws) ==
    LET ls == SplitLines(c)
        i == HeaderLine(ls, kws)
    IN  IF i # 0 THEN JoinLines(SubSeq(ls, i, SectionEnd(ls, i)))
        ELSE LET best == Best([n \in 1..Len(ls) |-> TotalScore(ls, kws, n)])
                 s == IF best.best_match - ContextRadius < 1
                      THEN 1 ELSE best.best_match - ContextRadius
                 e == IF Len(ls) < best.best_match + context_lines - 1
                      THEN Len(ls) ELSE best.best_match + context_lines - 1
             IN  IF best.best_match # 0 /\ best.best_score >= ScoreThreshold
                 THEN JoinLines(SubSeq(ls, s, e))
                 ELSE <<>>

\* the directories and the file names of the paths given
Dirs == {"in", "old"}
DocNames == {"a.txt", "b.txt", "c.txt"}

\* the contents of the documents: empty, without a keyword, with a header
\* of one section, with lines of two sections
DocContents ==
    { <<>>,
      <<"x">>,
      <<"DIAGNOSIS", ":", NL, "x">>,
      <<"#", " ", "findings", NL, "dx", " ", "x">> }

\* a file path with what _extract_content_from_file does on it: it raises,
\* or returns a content
PathItems ==
    [dir : Dirs, base : DocNames, raises : {TRUE}, content : {<<>>}] \cup
    [dir : Dirs, base : DocNames, raises : {FALSE}, content : DocContents]

\* the (doc_name, content) pairs of a dict
DictItems == [k : DocNames, v : DocContents]

\* the arguments of organize_content: a list of at most MaxDocs file paths,
\* or a dict of at most MaxDocs documents (its keys are distinct)
DocumentsArgs ==
    { [list |-> TRUE, items |-> f] :
        f \in UNION { [1..n -> PathItems] : n \in 0..MaxDocs } } \cup
    { [list |-> FALSE, items |-> f] :
        f \in { g \in UNION { [1..n -> DictItems] : n \in 0..MaxDocs } :
                  \A i, j \in DOMAIN g : g[i].k = g[j].k => i = j } }

\* the mutant: a section starts with its own name as text
EmptyBuckets_titled(sk) ==
    [n \in 1..Len(sk) |-> [k |-> sk[n].section, v |-> <<sk[n].section>>]]

\* line 213: {section: "" for section in self.section_keywords.keys()}
EmptyBuckets(sk) ==
    [n \in 1..Len(sk) |-> [k |-> sk[n].section, v |-> <<>>]]

RECURSIVE FromPaths(_, _, _)
\* lines 218-226: the contents of the files, keyed by os.path.basename; a
\* file whose extraction raises is left out
FromPaths(paths, n, dict) ==
    IF n > Len(paths) THEN dict
    ELSE FromPaths(paths, n + 1,
                   IF paths[n].raises THEN dict
                   ELSE SetItem(dict, paths[n].base, paths[n].content))

\* lines 249, 251: f"--- From {doc_name} ---\n\n"
Delimiter(doc_name) == <<"--- From ", doc_name, " ---", NL, NL>>

\* the mutant: no blank line before the delimiter of a later document
AddBlock_without_blank_line(bucket, doc_name, section_content) ==
    bucket \o Delimiter(doc_name) \o section_content

\* lines 248-254: the delimiter, after a blank line when the bucket holds
\* text already, and the section content
AddBlock(bucket, doc_name, section_content) ==
    (IF bucket # <<>>
     THEN bucket \o <<NL, NL>> \o Delimiter(doc_name)
     ELSE bucket \o Delimiter(doc_name))
    \o section_content

RECURSIVE OrganizeSections(_, _, _, _)
\* lines 242-254: the loop over the sections, for one document
OrganizeSections(oc, doc_name, c, n) ==
    IF n > Len(section_keywords) THEN oc
    ELSE LET section_name == section_keywords[n].section
             section_content ==
                 _extract_section(c, section_keywords[n].keywords)
         IN  OrganizeSections(
                 IF section_content # <<>>
                 THEN SetItem(oc, section_name,
                              AddBlock(Lookup(oc, section_name), doc_name,
                                       section_content))
                 ELSE oc,
                 doc_name, c, n + 1)

\* organize_content is called on a list of paths or on a dict
InitOrganize ==
    /\ DeidentifierNew
    /\ ChunkerUnused
    /\ ExtractorUnused
    /\ SessionNew
    /\ NoRequest
    /\ NoReport
    /\ NoNarrativeCall
    /\ StoreDirectoryEmpty
    /\ og_pc = "start"
    /\ documents \in DocumentsArgs
    /\ documents_dict = <<>>
    /\ doc = 0
    /\ organized_content = <<>>

\* lines 213-226: the buckets are made, the files of the list are read
ConvertList ==
    /\ og_pc = "start"
    /\ documents.list
    /\ organized_content' = EmptyBuckets(section_keywords)
    /\ documents_dict' = FromPaths(documents.items, 1, <<>>)
    /\ doc' = 1
    /\ og_pc' = "loop"
    /\ UNCHANGED documents
    /\ UNCHANGED <<deidVars, chunkVars, extractVars, sessionVars, webVars, reportVars, lockVars, stampVars>>

\* lines 213-229: the buckets are made, the dict given is the one used
TakeDict ==
    /\ og_pc = "start"
    /\ ~documents.list
    /\ organized_content' = EmptyBuckets(section_keywords)
    /\ documents_dict' = documents.items
    /\ doc' = 1
    /\ og_pc' = "loop"
    /\ UNCHANGED documents
    /\ UNCHANGED <<deidVars, chunkVars, extractVars, sessionVars, webVars, reportVars, lockVars, stampVars>>

\* lines 231-234: a document without content is passed over
SkipEmptyDocument ==
    /\ og_pc = "loop"
    /\ doc <= Len(documents_dict)
    /\ documents_dict[doc].v = <<>>
    /\ doc' = doc + 1
    /\ UNCHANGED <<og_pc, documents, documents_dict, organized_content>>
    /\ UNCHANGED <<deidVars, chunkVars, extractVars, sessionVars, webVars, reportVars, lockVars, stampVars>>

\* lines 231-254: the sections of one document are added to the buckets
OrganizeDocument ==
    /\ og_pc = "loop"
    /\ doc <= Len(documents_dict)
    /\ documents_dict[doc].v # <<>>
    /\ organized_content' =
           OrganizeSections(organized_content, documents_dict[doc].k,
                            documents_dict[doc].v, 1)
    /\ doc' = doc + 1
    /\ UNCHANGED <<og_pc, documents, documents_dict>>
    /\ UNCHANGED <<deidVars, chunkVars, extractVars, sessionVars, webVars, reportVars, lockVars, stampVars>>

\* line 256: return organized_content
ReturnOrganized ==
    /\ og_pc = "loop"
    /\ doc > Len(documents_dict)
    /\ og_pc' = "done"
    /\ UNCHANGED <<documents, documents_dict, doc, organized_content>>
    /\ UNCHANGED <<deidVars, chunkVars, extractVars, sessionVars, webVars, reportVars, lockVars, stampVars>>

NextOrganize ==
    \/ ConvertList
    \/ TakeDict
    \/ SkipEmptyDocument
    \/ OrganizeDocument
    \/ ReturnOrganized

SpecOrganize == InitOrganize /\ [][NextOrganize]_vars

----------------------------------------------------------------------------
\* DocumentProcessor.process_documents: organize_content on the files, then
\* the enhancement of each section that has content.

\* what generate_narrative or generate_custom_narrative does for a section:
\* it raises, or returns None, an empty str, a blank str, or a text
Outcomes ==
    { [kind |-> "raised", value |-> <<>>],
      [kind |-> "None", value |-> <<>>],
      [kind |-> "str", value |-> <<>>],
      [kind |-> "str", value |-> <<" ">>],
      [kind |-> "str", value |-> <<"enhanced">>] }

\* the mutant: a blank text is taken for content
ValidContent_unstripped(o) == o.kind = "str" /\ o.value # <<>>

\* line 374: enhanced_content and enhanced_content.strip()
ValidContent(o) ==
    o.kind = "str" /\ o.value # <<>> /\ Strip(o.value) # <<>>

\* the others' variables
ReportRest == <<deidVars, chunkVars, extractVars, organVars, sessionVars,
                stampVars, lockVars, webVars>>

\* process_documents is called on the files of the input directory; line
\* 342 calls organize_content on them
InitReport ==
    /\ DeidentifierNew
    /\ ChunkerUnused
    /\ ExtractorUnused
    /\ SessionNew
    /\ NoRequest
    /\ NoNarrativeCall
    /\ StoreDirectoryEmpty
    /\ og_pc = "start"
    /\ documents \in { a \in DocumentsArgs :
                          /\ a.list
                          /\ \A i \in DOMAIN a.items : a.items[i].dir = "in" }
    /\ documents_dict = <<>>
    /\ doc = 0
    /\ organized_content = <<>>
    /\ rp_pc = "organize"
    /\ api_available \in BOOLEAN
    /\ rp_reference_table \in GivenTables
    /\ rp_section = 0
    /\ report_content = <<>>
    /\ outcomes = <<>>

\* lines 342-345: organize_content has returned; report_content = {}
StartSections ==
    /\ rp_pc = "organize"
    /\ og_pc = "done"
    /\ rp_pc' = "loop"
    /\ rp_section' = 1
    /\ UNCHANGED <<api_available, rp_reference_table, report_content,
                   outcomes>>
    /\ UNCHANGED ReportRest

\* lines 348-352: a section without content is passed over
SkipEmptySection ==
    /\ rp_pc = "loop"
    /\ rp_section <= Len(organized_content)
    /\ organized_content[rp_section].v = <<>>
    /\ rp_section' = rp_section + 1
    /\ UNCHANGED <<rp_pc, api_available, rp_reference_table, report_content,
                   outcomes>>
    /\ UNCHANGED ReportRest

\* lines 348-360: the API is not available, the content goes in as it is
KeepSection ==
    /\ rp_pc = "loop"
    /\ rp_section <= Len(organized_content)
    /\ organized_content[rp_section].v # <<>>
    /\ ~api_available
    /\ report_content' = SetItem(report_content,
                                 organized_content[rp_section].k,
                                 organized_content[rp_section].v)
    /\ outcomes' = Append(outcomes, [k |-> organized_content[rp_section].k,
                                     v |-> [kind |-> "unavailable",
                                            value |-> <<>>]])
    /\ rp_section' = rp_section + 1
    /\ UNCHANGED <<rp_pc, api_available, rp_reference_table>>
    /\ UNCHANGED ReportRest

\* lines 348-378: the content goes in, the enhancement is tried and its
\* result replaces the content when it is valid
EnhanceSection ==
    /\ rp_pc = "loop"
    /\ rp_section <= Len(organized_content)
    /\ organized_content[rp_section].v # <<>>
    /\ api_available
    /\ \E o \in Outcomes :
        /\ report_content' =
               SetItem(report_content, organized_content[rp_section].k,
                       IF o.kind # "raised" /\ ValidContent(o)
                       THEN o.value
                       ELSE organized_content[rp_section].v)
        /\ outcomes' = Append(outcomes,
                              [k |-> organized_content[rp_section].k, v |-> o])
    /\ rp_section' = rp_section + 1
    /\ UNCHANGED <<rp_pc, api_available, rp_reference_table>>
    /\ UNCHANGED ReportRest

\* lines 383-389: each section is re-identified when a reference table is
\* given and not empty; return report_content
ReturnReport ==
    /\ rp_pc = "loop"
    /\ rp_section > Len(organized_content)
    /\ report_content' =
           IF rp_reference_table.given /\ rp_reference_table.table # <<>>
           THEN [n \in 1..Len(report_content) |->
                   [k |-> report_content[n].k,
                    v |-> reidentify_text(report_content[n].v,
                                          RefTable(rp_reference_table,
                                                   reference_table))]]
           ELSE report_content
    /\ rp_pc' = "done"
    /\ UNCHANGED <<api_available, rp_reference_table, rp_section, outcomes>>
    /\ UNCHANGED ReportRest

NextReport ==
    \/ ConvertList
    \/ SkipEmptyDocument
    \/ OrganizeDocument
    \/ ReturnOrganized
    \/ StartSections
    \/ SkipEmptySection
    \/ KeepSection
    \/ EnhanceSection
    \/ ReturnReport

SpecReport == InitReport /\ [][NextReport]_vars

----------------------------------------------------------------------------
\* app.py: the request process_files on one file of the input directory,
\* then the request finalize_report.  Line 80 constructs the Deidentifier
\* the two requests use; line 81 constructs the DocumentProcessor, whose
\* own Deidentifier (document_processor.py line 44) is the one that
\* _extract_content_from_file calls: reference_table, issued and the other
\* variables of deidentify_text are that object's here.

\* the file of the input directory
InputFile == "a.txt"

\* its contents: nothing, or the header line of a section and a text
FileTexts == { <<>> } \cup { <<"DIAGNOSIS", ":", NL>> \o t : t \in Texts }

\* self.report_sections, report_generator.py line 30: the report has the
\* sections the processor has
report_sections ==
    [n \in 1..Len(section_keywords) |-> section_keywords[n].section]

\* report_generator.py line 50: template_name.replace('_', ' ').title()
Title(section) ==
    CASE section = "diagnosis" -> "Diagnosis"
      [] section = "findings" -> "Findings"
      [] section = "codes" -> "Codes"
      [] OTHER -> section

\* report_generator.py lines 43-50 and 112, no template file of the section's name:
\* f"# {title}\n\n{content}\n\n" with the content in place
FormatSection(section, c) ==
    <<"# ", Title(section), NL, NL>> \o c \o <<NL, NL>>

\* content_sections.get(section, "")
GetSection(content_sections, section) ==
    IF HasKey(content_sections, section)
    THEN Lookup(content_sections, section)
    ELSE <<>>

RECURSIVE FormattedSections(_, _)
\* report_generator.py lines 100-115: the sections that have content, in
\* the order of report_sections
FormattedSections(content_sections, n) ==
    IF n > Len(report_sections) THEN <<>>
    ELSE LET c == GetSection(content_sections, report_sections[n])
         IN  (IF c = <<>> THEN <<>>
              ELSE << FormatSection(report_sections[n], c) >>)
             \o FormattedSections(content_sections, n + 1)

RECURSIVE JoinParts(_)
\* "\n\n".join(report)
JoinParts(parts) ==
    IF parts = <<>> THEN <<>>
    ELSE IF Len(parts) = 1 THEN parts[1]
    ELSE parts[1] \o <<NL, NL>> \o JoinParts(Tail(parts))

\* report_generator.py lines 90-125, without template, header or footer
\* given: the default header, the sections, the default footer
generate_report(content_sections) ==
    JoinParts(<< <<"# Clinical Assessment Report">>,
                 <<"Generated: ", "%B %d, %Y", NL>> >>
              \o FormattedSections(content_sections, 1)
              \o << <<NL, "---">>,
                    <<"This report was generated using Delilah Prime v1.0">>,
                    <<"(c) ", "%Y">> >>)

\* process_files is requested with one file in the input directory; the
\* Deidentifier of app.py line 80 is as constructed
InitWeb ==
    /\ DeidentifierNew
    /\ ChunkerUnused
    /\ ExtractorUnused
    /\ OrganizerUnused
    /\ SessionNew
    /\ NoNarrativeCall
    /\ StoreDirectoryEmpty
    /\ rp_pc = "unused"
    /\ api_available \in BOOLEAN
    /\ rp_reference_table = [given |-> FALSE, table |-> <<>>]
    /\ rp_section = 0
    /\ report_content = <<>>
    /\ outcomes = <<>>
    /\ web_pc = "organize"
    /\ file_text \in FileTexts
    /\ app_reference_table = <<>>
    /\ draft_report = <<>>
    /\ final_report = <<>>

\* document_processor.py lines 221 and 401-416: organize_content, called
\* by app.py line 204 or by process_documents, reads the file and calls
\* deidentify_text of the processor's Deidentifier on its content
ExtractFile ==
    /\ web_pc \in {"organize", "process"}
    /\ og_pc = "unused"
    /\ pc = "idle"
    /\ file_text # <<>>
    /\ text' = file_text
    /\ deidentified_text' = file_text
    /\ phi' = 1
    /\ pat' = 1
    /\ pc' = "find"
    /\ UNCHANGED <<reference_table, matches, mi, calls, issued>>
    /\ UNCHANGED <<chunkVars, extractVars, organVars, sessionVars, stampVars,
                   lockVars, reportVars, webVars>>

\* document_processor.py lines 221-223 and 415-418: the file has no
\* content, and "" is its content in organize_content
ExtractEmptyFile ==
    /\ web_pc \in {"organize", "process"}
    /\ og_pc = "unused"
    /\ pc = "idle"
    /\ file_text = <<>>
    /\ documents' = [list |-> TRUE,
                     items |-> << [dir |-> "in", base |-> InputFile,
                                   raises |-> FALSE, content |-> <<>>] >>]
    /\ og_pc' = "start"
    /\ UNCHANGED <<documents_dict, doc, organized_content>>
    /\ UNCHANGED <<deidVars, chunkVars, extractVars, sessionVars, stampVars,
                   lockVars, reportVars, webVars>>

\* document_processor.py lines 416 and 221-223: deidentify_text returns,
\* and its result is the content of the file in organize_content
ExtractContent ==
    /\ web_pc \in {"organize", "process"}
    /\ pc = "ret"
    /\ documents' = [list |-> TRUE,
                     items |-> << [dir |-> "in", base |-> InputFile,
                                   raises |-> FALSE,
                                   content |-> deidentified_text] >>]
    /\ og_pc' = "start"
    /\ pc' = "idle"
    /\ calls' = calls + 1
    /\ text' = <<>>
    /\ deidentified_text' = <<>>
    /\ matches' = <<>>
    /\ phi' = 1
    /\ pat' = 1
    /\ UNCHANGED <<reference_table, mi, issued>>
    /\ UNCHANGED <<documents_dict, doc, organized_content>>
    /\ UNCHANGED <<chunkVars, extractVars, sessionVars, stampVars, lockVars,
                   reportVars, webVars>>

\* app.py lines 204-218: organize_content has returned; reference_table is
\* that of the Deidentifier of line 80, and process_documents is called
\* with it on the same file
CallProcessDocuments ==
    /\ web_pc = "organize"
    /\ og_pc = "done"
    /\ rp_reference_table' =
           [given |-> TRUE, table |-> app_reference_table]
    /\ rp_pc' = "organize"
    /\ web_pc' = "process"
    /\ og_pc' = "unused"
    /\ documents' = [list |-> FALSE, items |-> <<>>]
    /\ documents_dict' = <<>>
    /\ doc' = 0
    /\ organized_content' = <<>>
    /\ UNCHANGED <<api_available, rp_section, report_content, outcomes>>
    /\ UNCHANGED <<file_text, app_reference_table, draft_report,
                   final_report>>
    /\ UNCHANGED <<deidVars, chunkVars, extractVars, sessionVars, stampVars,
                   lockVars>>

\* app.py lines 218-227: process_documents has returned; the report is
\* generated from its sections and written to draft_report.txt
SaveDraft ==
    /\ web_pc = "process"
    /\ rp_pc = "done"
    /\ draft_report' = generate_report(report_content)
    /\ web_pc' = "drafted"
    /\ UNCHANGED <<file_text, app_reference_table, final_report>>
    /\ UNCHANGED <<deidVars, chunkVars, extractVars, organVars, sessionVars,
                   stampVars, lockVars, reportVars>>

\* app.py lines 404-425: the draft is read, re-identified by the
\* Deidentifier of line 80 and written as the final report
FinalizeReport ==
    /\ web_pc = "drafted"
    /\ final_report' = reidentify_text(draft_report, app_reference_table)
    /\ web_pc' = "finalized"
    /\ UNCHANGED <<file_text, app_reference_table, draft_report>>
    /\ UNCHANGED <<deidVars, chunkVars, extractVars, organVars, sessionVars,
                   stampVars, lockVars, reportVars>>

NextWeb ==
    \/ ExtractFile
    \/ ExtractEmptyFile
    \/ FindMatches
    \/ SkipMatch
    \/ ReplaceMatch
    \/ NextPattern
    \/ ExtractContent
    \/ ConvertList
    \/ SkipEmptyDocument
    \/ OrganizeDocument
    \/ ReturnOrganized
    \/ CallProcessDocuments
    \/ StartSections
    \/ SkipEmptySection
    \/ KeepSection
    \/ EnhanceSection
    \/ ReturnReport
    \/ SaveDraft
    \/ FinalizeReport

SpecWeb == InitWeb /\ [][NextWeb]_vars

\* ------------------------------------------------------------- properties
\* position p of s lies inside an occurrence of a placeholder issued so far
InPlaceholder(s, p) ==
    \E n \in 1..Len(issued) :
        LET k == issued[n].k
        IN  \E i \in (p - Len(k) + 1)..p :
                /\ i >= 1
                /\ i + Len(k) - 1 <= Len(s)
                /\ SubSeq(s, i, i + Len(k) - 1) = k

\* s contains a protected phrase of the exclusion list, ignoring case
ContainsProtectedPhrase(s) ==
    \E n \in 1..Len(professional_terms) :
        Contains(LowerSeq(professional_terms[n]), LowerSeq(s))

\* C1: when deidentify_text returns, reidentify_text of the returned text
\* under the session's table is the input text.
C1_RoundTrip ==
    pc = "ret" => reidentify_text(deidentified_text, reference_table) = text

\* C2: no two substituted spans of a session receive the same placeholder.
C2_NoCollision ==
    \A i, j \in 1..Len(issued) : i # j => issued[i].k # issued[j].k

\* C3: whenever no call is running or one is about to return, every
\* placeholder substituted so far is a key of the reference table and its
\* value is the text that placeholder replaced.
C3_SubstitutionsRecorded ==
    pc \in {"ret", "idle"} =>
        \A n \in 1..Len(issued) :
            /\ HasKey(reference_table, issued[n].k)
            /\ Lookup(reference_table, issued[n].k) = issued[n].v

\* C1 and C3 fail by the collision of C2 alone: without one they hold.
RoundTripWithoutCollision == C2_NoCollision => C1_RoundTrip
RecordedWithoutCollision == C2_NoCollision => C3_SubstitutionsRecorded

\* C4: the match a pattern application processes next is disjoint from
\* every placeholder already in the text.
C4_PlaceholdersNotRescanned ==
    (pc = "loop" /\ mi > 0 /\ issued # <<>>) =>
        \A p \in matches[mi].start..(matches[mi].end - 1) :
            ~InPlaceholder(deidentified_text, p)

\* C4's case: a pattern of the second category has a match to replace in a
\* text that already holds a placeholder.
C4_Witness ==
    /\ pc = "loop"
    /\ phi = 2
    /\ mi > 0
    /\ ~_is_professional_term(matches[mi].group)
    /\ \E p \in 1..Len(deidentified_text) : InPlaceholder(deidentified_text, p)

IsPrefix(s, t) == Len(s) <= Len(t) /\ SubSeq(t, 1, Len(s)) = s
IsSuffix(s, t) ==
    Len(s) <= Len(t) /\ SubSeq(t, Len(t) - Len(s) + 1, Len(t)) = s

\* C6: every chunk returned is at most max_chunk_size long, except a chunk
\* that is one single line longer than max_chunk_size.
C6_ChunkBound ==
    ck_pc = "done" =>
        \A n \in 1..Len(chunks) :
            \/ Len(chunks[n]) <= max_chunk_size
            \/ \A i \in 1..Len(chunks[n]) : chunks[n][i] # NL

\* C7: each chunk after the first begins with the lines copied for it, which
\* are the last lines of the chunk before it in their order there, and
\* which joined are at most chunk_overlap long.
C7_OverlapCorrect ==
    \A n \in 1..(Len(chunks) - 1) :
        /\ IsSuffix(seeds[n + 1], SplitLines(chunks[n]))
        /\ IsPrefix(seeds[n + 1], SplitLines(chunks[n + 1]))
        /\ Len(JoinLines(seeds[n + 1])) <= chunk_overlap

\* C7's case: split_into_chunks has returned two chunks or more, the second
\* beginning with lines copied from the first.
C7_Witness ==
    /\ ck_pc = "done"
    /\ Len(chunks) >= 2
    /\ seeds[2] # <<>>
    /\ JoinLines(seeds[2]) # <<>>

\* C17: when more than one chunk is returned, each chunk after the first
\* begins with at least one line copied from the end of the chunk before.
C17_ChunksShareContext ==
    ck_pc = "done" =>
        \A n \in 1..(Len(chunks) - 1) :
            /\ seeds[n + 1] # <<>>
            /\ IsSuffix(seeds[n + 1], SplitLines(chunks[n]))
            /\ IsPrefix(seeds[n + 1], SplitLines(chunks[n + 1]))

\* the first line after line i that looks like a header as written and
\* holds a keyword of any section; Len(ls) + 1 when there is none
NextHeaderAfter(ls, i) ==
    LET headers == {j \in (i + 1)..Len(ls) :
                      /\ LooksLikeHeader(ls[j])
                      /\ AnyKeywordIn(SumValues(section_keywords, 1),
                                      LowerSeq(ls[j]))}
    IN  IF headers = {} THEN Len(ls) + 1 ELSE First(headers)

\* C8: the slice returned for a header line runs from that line to the line
\* before the next header line holding a keyword of any section, however
\* far that line is, or to the last line when there is none.
C8_SectionEndsAtNextHeader ==
    ex_pc = "ret_header" =>
        result = JoinLines(SubSeq(lines, start,
                                  NextHeaderAfter(lines, start) - 1))

\* C9: the score of each line is twice its keyword hits plus the hits of
\* the 5 lines before it and of the 5 lines after it, within the text.
C9_ScoreCountsFiveEachSide ==
    \A i \in 1..Len(scores) :
        LET first == IF i - ContextRadius < 1 THEN 1 ELSE i - ContextRadius
            last == IF Len(lines) < i + ContextRadius
                    THEN Len(lines) ELSE i + ContextRadius
        IN  scores[i] = LineHitWeight * Hits(keywords, lines[i])
                        + ContextScore(lines, keywords, i, first, last)

\* C10: with no header found and a best score of 2 or more, the text
\* returned is the lines from 5 before the best line through context_lines
\* after it, within the text; with a best score below 2 it is empty.
C10_WindowAroundBestLine ==
    /\ ex_pc = "ret_window" =>
        LET first == IF best_match - ContextRadius < 1
                     THEN 1 ELSE best_match - ContextRadius
            last == IF Len(lines) < best_match + context_lines
                    THEN Len(lines) ELSE best_match + context_lines
        IN  /\ best_score >= ScoreThreshold
            /\ result = JoinLines(SubSeq(lines, first, last))
    /\ ex_pc = "ret_empty" => (best_score < ScoreThreshold /\ result = <<>>)

\* the keyword occurs in the line, letter case ignored on both sides
KeywordInLine(kw, line) == Contains(LowerSeq(kw), LowerSeq(line))

\* C15: in both passes a line holds a keyword whenever the keyword occurs
\* in it with case ignored: when the header pass found nothing, no line
\* that looks like a header holds a keyword of the section, and a line's
\* score is at least twice the keywords of the section that occur in it.
C15_KeywordCaseIgnored ==
    /\ ex_pc \in {"score", "select", "ret_window", "ret_empty"} =>
        \A i \in 1..Len(lines) :
            LooksLikeHeader(lines[i]) =>
                \A k \in 1..Len(keywords) : ~KeywordInLine(keywords[k], lines[i])
    /\ \A i \in 1..Len(scores) :
        scores[i] >= LineHitWeight
            * Cardinality({k \in 1..Len(keywords) :
                             KeywordInLine(keywords[k], lines[i])})

\* C16: the line that ends the section is tested as the line that starts
\* it: within the lines the search reaches, a line that looks like a header
\* as written (upper case included) and holds a keyword of any section is
\* not inside the slice returned.
C16_BoundaryTestedAsStart ==
    ex_pc = "ret_header" =>
        \A j \in (start + 1)..(start + HeaderLookahead - 1) :
            (/\ j <= Len(lines)
             /\ LooksLikeHeader(lines[j])
             /\ AnyKeywordIn(SumValues(section_keywords, 1), LowerSeq(lines[j])))
            => end < j

\* C20: when no line of the content holds a keyword of the section, the
\* call returns, and returns the empty text.
C20_NoKeywordNoSection ==
    (/\ ex_pc \in {"ret_header", "ret_window", "ret_empty"}
     /\ \A i \in 1..Len(lines) : \A k \in 1..Len(keywords) :
            ~KeywordInLine(keywords[k], lines[i]))
    => (ex_pc = "ret_empty" /\ result = <<>>)

\* C20's case: a content of several lines, one of them holding a keyword of
\* another section and none a keyword of this one, has been searched.
C20_Witness ==
    /\ ex_pc = "ret_empty"
    /\ Len(lines) >= 2
    /\ \E i \in 1..Len(lines) :
           AnyKeywordIn(SumValues(section_keywords, 1), LowerSeq(lines[i]))
    /\ \A i \in 1..Len(lines) : \A k \in 1..Len(keywords) :
           ~KeywordInLine(keywords[k], lines[i])

\* C11: reidentify_content applies the pairs of the table it is given
\* whenever one is given, an empty one included, and the instance's own
\* table only when none is given.
C11_GivenTableApplied ==
    (last_call.op = "reidentify_content" /\ last_call.status = "returned") =>
        last_call.ret =
            reidentify_text(last_call.content,
                            IF last_call.given THEN last_call.table
                            ELSE last_call.before)

\* C12: a load from a missing or malformed file returns False, raises
\* nothing and leaves the reference table as it was.
C12_FailedLoadReportsFalse ==
    [][(/\ last_call' # last_call
        /\ last_call'.op = "load_reference_table"
        /\ last_call'.file \in {"missing", "malformed_json", "undecodable"})
       => (/\ last_call'.status = "False"
           /\ reference_table' = reference_table)]_vars

\* every call has returned, and a save begun after the last of them has
\* returned
FinalPersistDone ==
    /\ pc = "idle"
    /\ sv_pc = "idle"
    /\ last_call.op = "save_reference_table"
    /\ last_call.status = "returned"
    /\ last_call.at = calls

\* C13: with saves beside deidentify_text calls, the table is not changed
\* while it is being saved, and once every call has returned and a last
\* save is done the file holds, for every placeholder put in a text, the
\* text it replaced.
C13_SerializedNoLostUpdate ==
    /\ [](FinalPersistDone =>
            /\ store_kind = "file"
            /\ json_load(store_text).ok
            /\ \A n \in 1..Len(issued) :
                   /\ HasKey(json_load(store_text).value, issued[n].k)
                   /\ Lookup(json_load(store_text).value, issued[n].k)
                          = issued[n].v)
    /\ [][sv_pc = "dump" => reference_table' = reference_table]_vars

\* C14: the table is empty at construction and, load_reference_table
\* aside, every step keeps each pair the table holds.
C14_TableOnlyGrows ==
    /\ reference_table = <<>>
    /\ [][\/ LoadReferenceTable
          \/ \A n \in 1..Len(reference_table) :
                 /\ HasKey(reference_table', reference_table[n].k)
                 /\ Lookup(reference_table', reference_table[n].k)
                        = reference_table[n].v]_vars


\* the text _extract_section returns is the function of its arguments that
\* organize_content uses
ExtractSectionAgrees ==
    ex_pc \in {"ret_header", "ret_window", "ret_empty"}
        => result = _extract_section(content, keywords)

\* document n of the dict gives text to the section of these keywords
Contributes(n, kws) == _extract_section(documents_dict[n].v, kws) # <<>>

\* C18: organize_content returns a dict whose keys are exactly the
\* configured section names, each once, and a section for which no document
\* gave text maps to the empty string
C18_EverySectionPresent ==
    og_pc = "done" =>
        /\ Len(organized_content) = Len(section_keywords)
        /\ \A s \in 1..Len(section_keywords) :
               /\ HasKey(organized_content, section_keywords[s].section)
               /\ Cardinality({n \in 1..Len(organized_content) :
                      organized_content[n].k = section_keywords[s].section})
                      = 1
               /\ (\A n \in 1..Len(documents_dict) :
                       ~Contributes(n, section_keywords[s].keywords))
                     => Lookup(organized_content,
                               section_keywords[s].section) = <<>>

\* a call returned with documents given, a section with text and a section
\* without
C18_Witness ==
    /\ og_pc = "done"
    /\ Len(documents_dict) >= 1
    /\ \E s, t \in 1..Len(section_keywords) :
           /\ Lookup(organized_content, section_keywords[s].section) # <<>>
           /\ \A n \in 1..Len(documents_dict) :
                  ~Contributes(n, section_keywords[t].keywords)

RECURSIVE Blocks(_, _)
\* one block for each document from n on that gives text to the section:
\* the delimiter line of the document, then the text
Blocks(kws, n) ==
    IF n > Len(documents_dict) THEN <<>>
    ELSE IF Contributes(n, kws)
    THEN <<Delimiter(documents_dict[n].k)
             \o _extract_section(documents_dict[n].v, kws)>>
         \o Blocks(kws, n + 1)
    ELSE Blocks(kws, n + 1)

RECURSIVE JoinBlocks(_)
\* the blocks, a blank line between two of them
JoinBlocks(bs) ==
    IF bs = <<>> THEN <<>>
    ELSE IF Len(bs) = 1 THEN bs[1]
    ELSE bs[1] \o <<NL, NL>> \o JoinBlocks(Tail(bs))

\* C19: the bucket of each section is the blocks of the documents that give
\* text to it, and of no other, in the order of the documents, a blank line
\* between consecutive blocks
C19_BucketIsBlocksInOrder ==
    og_pc = "done" =>
        \A s \in 1..Len(section_keywords) :
            Lookup(organized_content, section_keywords[s].section)
                = JoinBlocks(Blocks(section_keywords[s].keywords, 1))

\* a call returned where two documents gave text to one section
C19_Witness ==
    /\ og_pc = "done"
    /\ \E s \in 1..Len(section_keywords) :
           /\ Len(Blocks(section_keywords[s].keywords, 1)) >= 2
           /\ Lookup(organized_content, section_keywords[s].section) # <<>>


\* C24: a text at most max_chunk_size long is returned as the sole chunk,
\* itself; the empty text gives one empty chunk
C24_ShortTextIsSoleChunk ==
    (ck_pc = "done" /\ Len(chunk_text) <= max_chunk_size)
        => chunks = <<chunk_text>>

\* split_into_chunks has returned for a text of several lines that is
\* within the limit
C24_Witness ==
    /\ ck_pc = "done"
    /\ Len(chunk_text) <= max_chunk_size
    /\ \E i \in 1..Len(chunk_text) : chunk_text[i] = NL
    /\ chunks = <<chunk_text>>

\* the lines of chunk n that were not copied from the chunk before
Remainder(n) ==
    LET ls == SplitLines(chunks[n])
    IN  SubSeq(ls, Len(seeds[n]) + 1, Len(ls))

RECURSIVE Remainders(_)
\* the lines of the chunks from n on without the copied ones, in order
Remainders(n) ==
    IF n > Len(chunks) THEN <<>> ELSE Remainder(n) \o Remainders(n + 1)

\* C29: for a text longer than max_chunk_size, every chunk adds at least
\* one line of its own, and the chunks without the lines copied from the
\* chunk before, joined with newlines, are the text
C29_ChunksCoverText ==
    (ck_pc = "done" /\ Len(chunk_text) > max_chunk_size) =>
        /\ \A n \in 1..Len(chunks) :
               /\ Len(seeds[n]) < Len(SplitLines(chunks[n]))
               /\ IsPrefix(seeds[n], SplitLines(chunks[n]))
        /\ JoinLines(Remainders(1)) = chunk_text

\* split_into_chunks has returned three chunks, the later ones beginning
\* with copied lines
C29_Witness ==
    /\ ck_pc = "done"
    /\ Len(chunk_text) > max_chunk_size
    /\ Len(chunks) >= 3
    /\ seeds[2] # <<>>
    /\ seeds[3] # <<>>


\* C27: while the matches of one pattern are replaced, each match not yet
\* taken still lies in the text at its span: the text from start to end is
\* the matched text, so the replacement takes out exactly the match
C27_OffsetsStayValid ==
    pc = "loop" =>
        \A k \in 1..mi :
            /\ matches[k].end - 1 <= Len(deidentified_text)
            /\ SubSeq(deidentified_text, matches[k].start,
                      matches[k].end - 1) = matches[k].group

\* a match was replaced by a placeholder of another length and a match of
\* the same pattern, earlier in the text, is still to be taken
C27_Witness ==
    /\ pc = "loop"
    /\ mi >= 1
    /\ mi < Len(matches)
    /\ \E k \in (mi + 1)..Len(matches) :
           /\ ~_is_professional_term(matches[k].group)
           /\ Len(matches[k].group)
                  # Len(_generate_placeholder(phi_types[phi], IdNames[1]))


\* C22: the text a reidentify_text call returned comes back unchanged from
\* a second reidentify_text with the same table
C22_ReidentifyIdempotent ==
    (last_call.op = "reidentify_text" /\ last_call.status = "returned") =>
        reidentify_text(last_call.ret, last_call.before) = last_call.ret

\* reidentify_text has returned for a text holding a placeholder of the
\* table twice, both replaced
C22_Witness ==
    /\ last_call.op = "reidentify_text"
    /\ last_call.status = "returned"
    /\ \E n \in 1..Len(last_call.before) :
           last_call.content = last_call.before[n].k \o <<" ">>
                                   \o last_call.before[n].k
    /\ last_call.ret # last_call.content
    /\ \A n \in 1..Len(last_call.before) :
           ~Contains(last_call.before[n].k, last_call.ret)


\* C21: a load of the file save_reference_table wrote returns True and
\* makes the table the one that was saved, pair for pair and in the same
\* order, so that reidentify_text gives what it gave with the saved table
C21_SaveLoadRoundTrip ==
    [][(/\ last_call' # last_call
        /\ last_call'.op = "load_reference_table"
        /\ last_call'.path = "saved"
        /\ store_kind = "file")
       => (/\ last_call'.status = "True"
           /\ reference_table' = sv_snapshot
           /\ \A c \in ReidContents :
                  reidentify_text(c, reference_table')
                      = reidentify_text(c, sv_snapshot))]_vars

\* a table of two pairs was saved, a new Deidentifier was constructed and
\* has loaded the file
C21_Witness ==
    /\ last_call.op = "load_reference_table"
    /\ last_call.path = "saved"
    /\ last_call.status = "True"
    /\ last_call.before = <<>>
    /\ Len(sv_snapshot) >= 2
    /\ Len(reference_table) >= 2

\* C28: after a load_reference_table that returned True the table maps
\* strings to strings, and the reidentify call that follows does not raise
C28_LoadedTableIsFlat ==
    /\ [][(/\ last_call' # last_call
           /\ last_call'.op = "load_reference_table"
           /\ last_call'.status = "True")
          => \A n \in 1..Len(reference_table') :
                 /\ IsStr(reference_table'[n].k)
                 /\ IsStr(reference_table'[n].v)]_vars
    /\ [][(/\ last_call.op = "load_reference_table"
           /\ last_call.status = "True"
           /\ last_call'.op \in {"reidentify_text", "reidentify_content"})
          => last_call'.status = "returned"]_vars


\* C30: two Deidentifier objects on one directory have different session
\* ids, and a save never overwrites the file another of them wrote
C30_SessionsNeverShareFile ==
    /\ [](\A d, e \in 1..Len(session_ids) :
              d # e => session_ids[d] # session_ids[e])
    /\ [][\A n \in 1..Len(ref_table_files) :
              Lookup(ref_table_files', ref_table_files[n].k)
                  = ref_table_files[n].v]_vars


\* the thread is between its acquire and its release
InGuardedRegion(t) == nr_pc[t] \in {"locked", "processing", "release"}

\* C26: at most one thread at a time is between acquire and release for the
\* section, and a thread releases only a lock that is locked and that it
\* locked itself
C26_OneThreadPerSection ==
    /\ [](\A t, u \in DOMAIN nr_pc :
              (InGuardedRegion(t) /\ InGuardedRegion(u)) => t = u)
    /\ [][\A t \in DOMAIN nr_pc :
              (nr_pc[t] = "release" /\ nr_pc'[t] # "release")
                  => lock_holder[section_locks] = t]_vars


\* the enhancement of the section gave nothing to use: it raised, or it
\* returned None or a str that is empty or blank
EnhancementFailed(o) ==
    \/ o.kind \in {"raised", "None"}
    \/ o.kind = "str" /\ \A i \in 1..Len(o.value) : IsSpace(o.value[i])

\* the report text of a section, before the re-identification of line 385
Unenhanced(section) ==
    IF rp_pc = "done" /\ rp_reference_table.given
       /\ rp_reference_table.table # <<>>
    THEN reidentify_text(Lookup(organized_content, section),
                         rp_reference_table.table)
    ELSE Lookup(organized_content, section)

\* C23: every section with content that the loop has passed is in the
\* report, those after a failed enhancement too, and a section whose
\* enhancement raised or returned nothing or a blank holds its organized
\* content
C23_FailedEnhancementKeepsContent ==
    rp_pc \in {"loop", "done"} =>
        /\ \A n \in 1..(rp_section - 1) :
               organized_content[n].v # <<>>
                   => HasKey(report_content, organized_content[n].k)
        /\ \A n \in 1..Len(outcomes) :
               EnhancementFailed(outcomes[n].v)
                   => Lookup(report_content, outcomes[n].k)
                          = Unenhanced(outcomes[n].k)

\* process_documents has returned; the enhancement of one section raised,
\* that of a later section returned a blank, and both are in the report
C23_Witness ==
    /\ rp_pc = "done"
    /\ Len(outcomes) >= 2
    /\ outcomes[1].v.kind = "raised"
    /\ outcomes[2].v = [kind |-> "str", value |-> <<" ">>]
    /\ HasKey(report_content, outcomes[1].k)
    /\ HasKey(report_content, outcomes[2].k)

\* a placeholder issued while the files of the run were de-identified
\* occurs in the text s
IssuedPlaceholderIn(s) ==
    \E n \in 1..Len(issued) : Contains(issued[n].k, s)

\* C25: when finalize_report has written the final report, the reference
\* table it re-identified with holds every placeholder issued while the
\* run's file was de-identified, and no such placeholder is in the report
C25_FinalReportHasNoPlaceholder ==
    web_pc = "finalized" =>
        /\ \A n \in 1..Len(issued) : HasKey(app_reference_table, issued[n].k)
        /\ ~IssuedPlaceholderIn(final_report)

====
